---- MODULE Spec2Model ----
(***************************************************************************)
(* Authorization-flow engine of PAuth: OAuth2Client (blocking) and         *)
(* AsyncOAuth2Client (non-blocking) over the eight provider classes.       *)
(* Strings are sequences of one-character strings, so that inserting a     *)
(* value into a URL and reading the parameter back are different things.   *)
(* The module also covers the construction of a client, two clients that   *)
(* were handed one provider instance, the token stores, the web adapters,   *)
(* interleaved coroutines and the security auditor.                        *)
(***************************************************************************)
EXTENDS Integers, Sequences, FiniteSets, TLC

\* the clients
VARIABLES provider, use_pkce, active, eng, url, rng, last, issued

\* the arguments of the constructor call and how it ended
VARIABLES args, constructed

\* a token store: memory is the mapping of the in-memory variant, storage_dir
\* the directory of the file-backed one; saved remembers per user_id what the
\* caller stored last, now is the clock, store_last the completed store call
VARIABLES storage, memory, storage_dir, saved, now, store_last

\* a function of the token and provider models under examination: what it
\* is applied to and what it gave
VARIABLES input, output

\* a web adapter: the session of each browser and the completed adapter call
VARIABLES session, web_last

\* the exchange_code_async calls under way on the non-blocking client
VARIABLES tasks

\* a security audit: the two attributes of the audited client the engine
\* model has no use for, the fields of the SecurityAuditor, and the audits
\* made so far, each with the client it saw and the report it returned
VARIABLES redirect_uri, token_storage, auditor, reports

clientVars == <<provider, use_pkce, active, eng, url, rng, last, issued>>

ctorVars == <<args, constructed>>

storeVars == <<storage, memory, storage_dir, saved, now, store_last>>

funVars == <<input, output>>

webVars == <<session, web_last>>

taskVars == <<tasks>>

auditVars == <<redirect_uri, token_storage, auditor, reports>>

\* what neither the clients, nor the constructor, nor the stores touch
otherVars == <<funVars, webVars, taskVars, auditVars>>

vars == <<clientVars, ctorVars, storeVars, otherVars>>

\* ------------------------------------------------------------------ bounds
\* number of secrets.token_urlsafe draws a behaviour may make
MaxNonce == 4

\* number of ticks the clock may advance while a token store is in use
MaxTime == 1

\* number of audits one SecurityAuditor is asked for
MaxAudits == 2

\* ------------------------------------------------------------- value space
Modes == {"sync", "async"}

ProviderIds ==
    {"discord", "linkedin", "microsoft", "apple",
     "google", "github", "facebook", "twitter"}

\* Python None, kept apart from the empty string <<>>
None == <<"None">>

\* Python truthiness of an Optional[str]
Truthy(s) == s # None /\ s # <<>>

\* the k-th value drawn from secrets.token_urlsafe: URL-safe and fresh
Nonce(k) == <<"r", ToString(k)>>

\* states a caller may pass explicitly; the second is not URL-safe
ExplicitStates == {<<"x">>, <<"x", "&", "y">>}

\* a state value an attacker makes up
ForgedState == <<"z">>

\* scope argument of get_authorization_url: None or a caller's list
NoScope == "None"
ScopeArgs == {NoScope, "custom"}

\* outcome of one HTTP round trip: a non-empty JSON object, an empty JSON
\* object, truthy JSON that is not an object, a failure reported as None,
\* a failure thrown by the transport
Outcomes == {"dict", "empty", "nondict", "none", "raise"}

\* ------------------------------------------------------------ provider layer
\* Google, GitHub, Facebook and Twitter: every endpoint and every operation
\* of the provider descriptor
FullDescriptorAttrs ==
    {"exchange_code_for_access_token", "refresh_token", "revoke_token",
     "get_user_info", "token_endpoint", "revocation_endpoint",
     "user_info_endpoint"}

\* methods and attributes each provider class defines itself
ClassAttrs(p) ==
    CASE p = "discord"   -> {"exchange_code_for_access_token", "refresh_token",
                             "revoke_token", "get_user_info", "token_endpoint",
                             "revocation_endpoint", "user_info_endpoint"}
      [] p = "linkedin"  -> {"exchange_code_for_access_token", "refresh_token",
                             "get_user_info", "token_endpoint",
                             "user_info_endpoint"}
      [] p = "microsoft" -> {"exchange_code_for_access_token", "refresh_token",
                             "get_user_info", "token_endpoint",
                             "revocation_endpoint", "user_info_endpoint"}
      [] p = "apple"     -> {"exchange_code_for_access_token", "refresh_token",
                             "revoke_token", "token_endpoint",
                             "revocation_endpoint"}
      [] OTHER           -> FullDescriptorAttrs

\* what every provider inherits from BaseProvider: the authorization URL
\* builder and the PKCE variant of the code exchange
BaseProviderAttrs == {"prepare_auth_url", "exchange_code_for_access_token_pkce"}

\* hasattr(self.provider, a)
HasAttr(p, a) == a \in ClassAttrs(p) \cup BaseProviderAttrs

\* the state value BaseProvider.prepare_auth_url puts into the URL by itself
ProviderState == <<"p">>

\* the scopes a provider starts with when the engine configures none
DefaultScopes == "defaults"

\* ------------------------------------------------------------- transport
\* utils.request.make_request: hands back the parsed body, None on a
\* reported failure, or lets the transport error escape
make_request(o) ==
    IF o = "raise" THEN [ret |-> "none", exc |-> "TransportError"]
    ELSE [ret |-> o, exc |-> "none"]

\* utils.async_request.make_async_request: every failure becomes None
make_async_request(o) ==
    IF o = "raise" THEN [ret |-> "none", exc |-> "none"]
    ELSE [ret |-> o, exc |-> "none"]

\* Python truthiness of a transport result
TruthyData(d) == d \in {"dict", "nondict"}

\* provider methods ending in "if response: return response / else: raise"
ProviderCall(o) ==
    LET r == make_request(o)
    IN IF r.exc # "none" THEN r
       ELSE IF TruthyData(r.ret) THEN r
       ELSE [ret |-> "none", exc |-> "OAuthError"]

\* provider revoke_token: "if response is not None: return response"
ProviderRevoke(o) ==
    LET r == make_request(o)
    IN IF r.exc # "none" THEN r
       ELSE IF r.ret # "none" THEN r
       ELSE [ret |-> "none", exc |-> "OAuthError"]

\* TokenResponse.from_dict / UserInfo.from_dict: data.get(...) needs a dict
from_dict(d) == IF d = "dict" THEN "ok" ELSE "AttributeError"

\* ------------------------------------------------------------- requests
\* what a request puts on the wire, as far as the claims look at it: which
\* grant or call it is, the code verifier it carries, the HTTP method and the
\* scheme of its Authorization header
NoRequest ==
    [kind |-> "none", code_verifier |-> None, method |-> "none",
     authorization |-> "none"]

\* the form-encoded POSTs: code exchange, refresh, revoke
Request(k) ==
    [kind |-> k, code_verifier |-> None, method |-> "POST",
     authorization |-> "none"]

PkceRequest(v) ==
    [kind |-> "pkce", code_verifier |-> v, method |-> "POST",
     authorization |-> "none"]

\* make_request('GET', user_info_endpoint,
\*              headers={'Authorization': f'Bearer {access_token}'})
UserInfoRequest ==
    [kind |-> "userinfo", code_verifier |-> None, method |-> "GET",
     authorization |-> "Bearer"]

\* ------------------------------------------------------------- URL
NoUrl ==
    [stateRaw |-> None, code_challenge |-> None,
     code_challenge_method |-> "none", scope |-> NoScope]

\* text of a query-string value up to the next "&"
RECURSIVE UntilAmp(_)
UntilAmp(s) ==
    IF s = <<>> THEN <<>>
    ELSE IF Head(s) = "&" THEN <<>>
    ELSE <<Head(s)>> \o UntilAmp(Tail(s))

\* the value of the state parameter a server reads from the URL
UrlState(u) == IF u.stateRaw = None THEN None ELSE UntilAmp(u.stateRaw)

\* re.sub(r'state=[^&]*', f'state={self._state}', auth_url): the text after
\* "state=" up to the next "&" is replaced by the raw value
re_sub_state(u, st) ==
    IF u.stateRaw = None THEN u
    ELSE LET old  == u.stateRaw
             rest == SubSeq(old, Len(UntilAmp(old)) + 1, Len(old))
         IN [u EXCEPT !.stateRaw = st \o rest]

\* BaseProvider.prepare_auth_url(additional_params)
prepare_auth_url(scopes, challenge, method) ==
    [stateRaw |-> ProviderState, code_challenge |-> challenge,
     code_challenge_method |-> method, scope |-> scopes]

\* ------------------------------------------------------------- engine
\* the fields of one client after __init__
InitEngine ==
    [_state |-> None, _code_verifier |-> None, provider_scopes |-> DefaultScopes]

\* secrets.token_urlsafe(32), the c-th draw being the next one
generate_state(c) == Nonce(c + 1)

\* secrets.token_urlsafe(64)
_generate_code_verifier(c) == Nonce(c + 1)

\* hashlib.sha256(...).digest(), kept symbolic and injective
sha256(b) == <<"S256">> \o b

\* base64.urlsafe_b64encode of a 32-byte digest: 43 characters of the
\* alphabet, kept symbolic, and one "=" of padding
urlsafe_b64encode(d) == d \o <<"=">>

\* str.rstrip('=')
RECURSIVE rstrip(_)
rstrip(t) ==
    IF t # <<>> /\ t[Len(t)] = "=" THEN rstrip(SubSeq(t, 1, Len(t) - 1)) ELSE t

\* _generate_code_challenge returning the encoding as it is
_generate_code_challenge_padded(v) == urlsafe_b64encode(sha256(v))

\* OAuth2Client._generate_code_challenge
_generate_code_challenge(v) == rstrip(urlsafe_b64encode(sha256(v)))

\* get_authorization_url keeping a state and verifier already stored
get_authorization_url_keepsFirst(e, scope, state, c) ==
    LET scopes == IF scope # NoScope THEN scope ELSE e.provider_scopes
        st     == IF Truthy(e._state) THEN e._state
                  ELSE IF Truthy(state) THEN state ELSE generate_state(c)
        ver    == IF use_pkce /\ ~Truthy(e._code_verifier)
                  THEN _generate_code_verifier(c + 1) ELSE e._code_verifier
        url0   == IF use_pkce
                  THEN prepare_auth_url(scopes, _generate_code_challenge(ver), "S256")
                  ELSE prepare_auth_url(scopes, None, "none")
    IN [eng |-> [_state |-> st, _code_verifier |-> ver,
                 provider_scopes |-> scopes],
        url |-> re_sub_state(url0, st), rng |-> c + 2, result |-> "ok",
        request |-> NoRequest]

\* OAuth2Client.get_authorization_url and AsyncOAuth2Client's copy of it;
\* c is the number of random draws made so far
get_authorization_url(e, scope, state, c) ==
    LET scopes == IF scope # NoScope THEN scope ELSE e.provider_scopes
        gen    == ~Truthy(state)
        st     == IF gen THEN generate_state(c) ELSE state
        c1     == IF gen THEN c + 1 ELSE c
        ver    == IF use_pkce THEN _generate_code_verifier(c1)
                  ELSE e._code_verifier
        c2     == IF use_pkce THEN c1 + 1 ELSE c1
        url0   == IF use_pkce
                  THEN prepare_auth_url(scopes, _generate_code_challenge(ver), "S256")
                  ELSE prepare_auth_url(scopes, None, "none")
        url1   == IF Truthy(state) \/ use_pkce THEN re_sub_state(url0, st)
                  ELSE url0
    IN [eng |-> [_state |-> st, _code_verifier |-> ver, provider_scopes |-> scopes],
        url |-> url1, rng |-> c2, result |-> "ok", request |-> NoRequest]

\* Raise dropping the stored state on the way out
Raise_clearsState(e, kind, req) ==
    [eng |-> [e EXCEPT !._state = None], result |-> kind, request |-> req]

\* an operation that raises: nothing stored changes
Raise(e, kind, req) == [eng |-> e, result |-> kind, request |-> req]

\* AfterTokenData with the two clearing assignments lost
AfterTokenData_keepsFlowState(e, r, req) ==
    IF r.exc # "none" THEN Raise(e, "AuthorizationError", req)
    ELSE IF ~TruthyData(r.ret) THEN Raise(e, "TokenError", req)
    ELSE IF from_dict(r.ret) # "ok" THEN Raise(e, "AuthorizationError", req)
    ELSE [eng |-> e, result |-> "ok", request |-> req]

\* the tail shared by both exchange_code variants once token_data is known:
\* empty data is a TokenError, a failed conversion is wrapped, success clears
AfterTokenData(e, r, req) ==
    IF r.exc # "none" THEN Raise(e, "AuthorizationError", req)
    ELSE IF ~TruthyData(r.ret) THEN Raise(e, "TokenError", req)
    ELSE IF from_dict(r.ret) # "ok" THEN Raise(e, "AuthorizationError", req)
    ELSE [eng |-> [e EXCEPT !._state = None, !._code_verifier = None],
          result |-> "ok", request |-> req]

\* StateRejected asking for a state whenever one is stored
StateRejected_missingState(e, state, validate_state) ==
    validate_state
    /\ \/ Truthy(state) /\ (~Truthy(e._state) \/ state # e._state)
       \/ ~Truthy(state) /\ Truthy(e._state)

\* StateRejected looking at the state whatever validate_state says
StateRejected_ignoresFlag(e, state, validate_state) ==
    Truthy(state) /\ (~Truthy(e._state) \/ state # e._state)

\* StateRejected without the "no state was stored" branch
StateRejected_skipsUnstored(e, state, validate_state) ==
    validate_state /\ Truthy(state)
    /\ Truthy(e._state) /\ state # e._state

\* the state check at the head of both exchange_code variants
StateRejected(e, state, validate_state) ==
    validate_state /\ Truthy(state)
    /\ (~Truthy(e._state) \/ state # e._state)

\* exchange_code without the "no code verifier available" check
exchange_code_uncheckedVerifier(e, state, validate_state, o) ==
    IF StateRejected(e, state, validate_state)
    THEN Raise(e, "InvalidStateError", NoRequest)
    ELSE IF use_pkce /\ HasAttr(provider, "exchange_code_for_access_token_pkce")
    THEN AfterTokenData(e, ProviderCall(o), PkceRequest(e._code_verifier))
    ELSE AfterTokenData(e, ProviderCall(o), Request("standard"))

\* OAuth2Client.exchange_code
exchange_code(e, state, validate_state, o) ==
    IF StateRejected(e, state, validate_state)
    THEN Raise(e, "InvalidStateError", NoRequest)
    ELSE IF use_pkce /\ HasAttr(provider, "exchange_code_for_access_token_pkce")
    THEN IF ~Truthy(e._code_verifier)
         THEN Raise(e, "AuthorizationError", NoRequest)
         ELSE AfterTokenData(e, ProviderCall(o), PkceRequest(e._code_verifier))
    ELSE AfterTokenData(e, ProviderCall(o), Request("standard"))

\* exchange_code_async always taking the standard branch
exchange_code_async_standardOnly(e, state, validate_state, o) ==
    IF StateRejected(e, state, validate_state)
    THEN Raise(e, "InvalidStateError", NoRequest)
    ELSE AfterTokenData(e, make_async_request(o), Request("standard"))

\* AsyncOAuth2Client.exchange_code_async
exchange_code_async(e, state, validate_state, o) ==
    IF StateRejected(e, state, validate_state)
    THEN Raise(e, "InvalidStateError", NoRequest)
    ELSE IF use_pkce /\ HasAttr(provider, "exchange_code_for_access_token_pkce")
    THEN IF ~Truthy(e._code_verifier)
         THEN Raise(e, "AuthorizationError", NoRequest)
         ELSE AfterTokenData(e, make_async_request(o),
                             PkceRequest(e._code_verifier))
    ELSE AfterTokenData(e, make_async_request(o), Request("standard"))

\* refresh_token with the "except Exception" wrapper lost: what the provider
\* or the conversion raises escapes as it is
refresh_token_unwrapped(e, o) ==
    IF ~HasAttr(provider, "refresh_token")
    THEN Raise(e, "TokenError", NoRequest)
    ELSE LET r == ProviderCall(o)
         IN IF r.exc # "none" THEN Raise(e, r.exc, Request("refresh"))
            ELSE IF ~TruthyData(r.ret) THEN Raise(e, "TokenError", Request("refresh"))
            ELSE IF from_dict(r.ret) # "ok"
            THEN Raise(e, from_dict(r.ret), Request("refresh"))
            ELSE [eng |-> e, result |-> "ok", request |-> Request("refresh")]

\* OAuth2Client.refresh_token
refresh_token(e, o) ==
    IF ~HasAttr(provider, "refresh_token")
    THEN Raise(e, "TokenError", NoRequest)
    ELSE LET r == ProviderCall(o)
         IN IF r.exc # "none" THEN Raise(e, "TokenError", Request("refresh"))
            ELSE IF ~TruthyData(r.ret) THEN Raise(e, "TokenError", Request("refresh"))
            ELSE IF from_dict(r.ret) # "ok"
            THEN Raise(e, "TokenError", Request("refresh"))
            ELSE [eng |-> e, result |-> "ok", request |-> Request("refresh")]

\* AsyncOAuth2Client.refresh_token_async
refresh_token_async(e, o) ==
    IF ~HasAttr(provider, "token_endpoint")
    THEN Raise(e, "TokenError", NoRequest)
    ELSE LET r == make_async_request(o)
         IN IF ~TruthyData(r.ret) THEN Raise(e, "TokenError", Request("refresh"))
            ELSE IF from_dict(r.ret) # "ok"
            THEN Raise(e, "TokenError", Request("refresh"))
            ELSE [eng |-> e, result |-> "ok", request |-> Request("refresh")]

\* revoke_token dropping the pending authorization
revoke_token_clearsState(e, o) ==
    [eng |-> [e EXCEPT !._state = None, !._code_verifier = None],
     result |-> "True", request |-> Request("revoke")]

\* OAuth2Client.revoke_token: "return result is not None", any exception
\* becomes a TokenError
revoke_token(e, o) ==
    IF ~HasAttr(provider, "revoke_token")
    THEN Raise(e, "TokenError", NoRequest)
    ELSE LET r == ProviderRevoke(o)
         IN IF r.exc # "none" THEN Raise(e, "TokenError", Request("revoke"))
            ELSE [eng |-> e,
                  result |-> IF r.ret # "none" THEN "True" ELSE "False",
                  request |-> Request("revoke")]

\* AsyncOAuth2Client.revoke_token_async
revoke_token_async(e, o) ==
    IF ~HasAttr(provider, "revocation_endpoint")
    THEN Raise(e, "TokenError", NoRequest)
    ELSE LET r == make_async_request(o)
         IN IF r.exc # "none" THEN Raise(e, "TokenError", Request("revoke"))
            ELSE [eng |-> e,
                  result |-> IF r.ret # "none" THEN "True" ELSE "False",
                  request |-> Request("revoke")]

\* OAuth2Client.get_user_info
get_user_info(e, o) ==
    IF ~HasAttr(provider, "get_user_info")
    THEN Raise(e, "UserInfoError", NoRequest)
    ELSE LET r == ProviderCall(o)
         IN IF r.exc # "none" THEN Raise(e, "UserInfoError", UserInfoRequest)
            ELSE IF ~TruthyData(r.ret)
            THEN Raise(e, "UserInfoError", UserInfoRequest)
            ELSE IF from_dict(r.ret) # "ok"
            THEN Raise(e, "UserInfoError", UserInfoRequest)
            ELSE [eng |-> e, result |-> "ok", request |-> UserInfoRequest]

\* get_user_info_async without the "if not user_data" check
get_user_info_async_acceptsEmpty(e, o) ==
    IF ~HasAttr(provider, "user_info_endpoint")
    THEN Raise(e, "UserInfoError", NoRequest)
    ELSE LET r == make_async_request(o)
         IN IF r.ret = "none" THEN Raise(e, "UserInfoError", UserInfoRequest)
            ELSE IF r.ret = "nondict"
            THEN Raise(e, "UserInfoError", UserInfoRequest)
            ELSE [eng |-> e, result |-> "ok", request |-> UserInfoRequest]

\* AsyncOAuth2Client.get_user_info_async
get_user_info_async(e, o) ==
    IF ~HasAttr(provider, "user_info_endpoint")
    THEN Raise(e, "UserInfoError", NoRequest)
    ELSE LET r == make_async_request(o)
         IN IF ~TruthyData(r.ret)
            THEN Raise(e, "UserInfoError", UserInfoRequest)
            ELSE IF from_dict(r.ret) # "ok"
            THEN Raise(e, "UserInfoError", UserInfoRequest)
            ELSE [eng |-> e, result |-> "ok", request |-> UserInfoRequest]

\* ------------------------------------------------------------- calls
\* the state a callback carries: none, empty, the state parameter of the
\* URL the engine handed out last, or a literal value
StateArgs ==
    {[kind |-> k, val |-> None] : k \in {"none", "empty", "echo"}}
    \cup {[kind |-> "lit", val |-> v] : v \in ExplicitStates \cup {ForgedState}}

\* the state argument a caller may give to get_authorization_url
AuthStateArgs == {None, <<>>} \cup ExplicitStates

Resolve(m, a) ==
    CASE a.kind = "none"  -> None
      [] a.kind = "empty" -> <<>>
      [] a.kind = "echo"  -> UrlState(url[m])
      [] OTHER            -> a.val

\* the call an engine has just completed and not yet handed back to its
\* caller: the operation, its arguments, the transport outcome it met, the
\* engine's fields when it started, how it ended and the request it sent
NoCall ==
    [op |-> "none", scope |-> NoScope, state |-> None, validate_state |-> FALSE,
     outcome |-> "none", pre |-> InitEngine, result |-> "none",
     request |-> NoRequest]

Call(op, scope, state, validate_state, o, pre, r) ==
    [op |-> op, scope |-> scope, state |-> state,
     validate_state |-> validate_state, outcome |-> o, pre |-> pre,
     result |-> r.result, request |-> r.request]

\* ------------------------------------------------------------- constructor
\* values a caller may pass for client_id, client_secret and scopes
ClientIds == {None, <<>>, <<"i">>}

ClientSecrets == {None, <<"s">>}

ConfiguredScopes == {NoScope, "configured"}

\* provider names a caller may write: the registered ones, one in capitals
\* and one that is not registered
ProviderNames == ProviderIds \cup {"DISCORD", "GITHUB", "Google", "okta"}

\* provider_name.lower()
lower(n) ==
    CASE n = "DISCORD" -> "discord"
      [] n = "GITHUB"  -> "github"
      [] n = "Google"  -> "google"
      [] OTHER         -> n

\* the provider argument: a Providers member, a string, a provider instance
\* built by the caller, or a value of some other type
ProviderArgs ==
    {[type |-> "Providers", val |-> p] : p \in ProviderIds}
    \cup {[type |-> "str", val |-> n] : n \in ProviderNames}
    \cup {[type |-> "BaseProvider", val |-> p] : p \in ProviderIds}
    \cup {[type |-> "int", val |-> "0"]}

CtorArgs ==
    [provider : ProviderArgs, client_id : ClientIds,
     client_secret : ClientSecrets, scopes : ConfiguredScopes,
     use_pkce : BOOLEAN]

\* the arguments behind a client that was built with id and secret, no
\* scopes, and provider p given as a value of type ty
ArgsFor(ty, p, pkce) ==
    [provider |-> [type |-> ty, val |-> p], client_id |-> <<"i">>,
     client_secret |-> <<"s">>, scopes |-> NoScope, use_pkce |-> pkce]

\* an attribute no assignment has reached yet
Unset == <<"unset">>

\* the fields of a client before __init__ has run
NoEngine ==
    [_state |-> Unset, _code_verifier |-> Unset, provider_scopes |-> "unset"]

\* from_string comparing the name as written
from_string_caseSensitive(n) == IF n \in ProviderIds THEN n ELSE "ValueError"

\* Providers.from_string
from_string(n) == IF lower(n) \in ProviderIds THEN lower(n) ELSE "ValueError"

\* the ValueError of from_string: the name that was not found and the
\* identifiers the message lists, "p.value for p in cls"
UnknownProvider(n) == [unknown |-> lower(n), available |-> ProviderIds]

\* the scopes of a provider built by the client: "scopes or [defaults]"
ProviderScopes(scopes) == IF scopes # NoScope THEN scopes ELSE DefaultScopes

\* __init__ ran to its end
Built(p, scopes) ==
    [exc |-> "none", provider |-> p,
     eng |-> [_state |-> None, _code_verifier |-> None,
              provider_scopes |-> scopes]]

\* __init__ raised
Failed(kind) == [exc |-> kind, provider |-> "unset", eng |-> NoEngine]

\* OAuth2Client.__init__ and AsyncOAuth2Client.__init__; a provider instance
\* comes with the scopes it was built with
__init__(a) ==
    IF ~Truthy(a.client_id) THEN Failed("ConfigurationError")
    ELSE IF a.provider.type = "BaseProvider"
    THEN Built(a.provider.val, DefaultScopes)
    ELSE IF a.provider.type = "Providers"
    THEN Built(a.provider.val, ProviderScopes(a.scopes))
    ELSE IF a.provider.type = "str"
    THEN IF from_string(a.provider.val) = "ValueError"
         THEN Failed("ValueError")
         ELSE Built(from_string(a.provider.val), ProviderScopes(a.scopes))
    ELSE Failed("ConfigurationError")

\* ------------------------------------------------------------- token model
\* Python None where an int is expected
NoneInt == -1

\* the tokens a caller constructs: one without expiry, one that lasts a tick
TokenArgs ==
    {[access_token |-> "t1", expires_in |-> NoneInt],
     [access_token |-> "t2", expires_in |-> 1]}

\* a TokenResponse constructed at time t: issued_at is set by the default
\* factory; the optional strings are left at None
TokenResponse(access_token, expires_in, t) ==
    [access_token |-> access_token, token_type |-> "Bearer",
     expires_in |-> expires_in, refresh_token |-> "None", scope |-> "None",
     id_token |-> "None", issued_at |-> t]

\* no token: what get_token returns for "not found"
NoToken == TokenResponse("None", NoneInt, NoneInt)

\* TokenResponse.expires_at
expires_at(tokens) ==
    IF tokens.expires_in # NoneInt THEN tokens.issued_at + tokens.expires_in
    ELSE NoneInt

\* is_expired turning true only after expires_at has passed
is_expired_strict(tokens, t) ==
    IF expires_at(tokens) = NoneInt THEN FALSE ELSE t > expires_at(tokens)

\* TokenResponse.is_expired read at time t
is_expired(tokens, t) ==
    IF expires_at(tokens) = NoneInt THEN FALSE ELSE t >= expires_at(tokens)

\* TokenResponse.to_dict
to_dict(tokens) ==
    [access_token |-> tokens.access_token, token_type |-> tokens.token_type,
     expires_in |-> tokens.expires_in, refresh_token |-> tokens.refresh_token,
     scope |-> tokens.scope, id_token |-> tokens.id_token,
     expires_at |-> expires_at(tokens)]

\* from_dict leaving token_type at its default
TokenResponse_from_dict_defaultType(data, t) ==
    [access_token |-> data.access_token, token_type |-> "Bearer",
     expires_in |-> data.expires_in, refresh_token |-> data.refresh_token,
     scope |-> data.scope, id_token |-> data.id_token, issued_at |-> t]

\* TokenResponse.from_dict called at time t: the six fields are read from
\* the dictionary, issued_at is set anew, 'expires_at' is not read
TokenResponse_from_dict(data, t) ==
    [access_token |-> data.access_token, token_type |-> data.token_type,
     expires_in |-> data.expires_in, refresh_token |-> data.refresh_token,
     scope |-> data.scope, id_token |-> data.id_token, issued_at |-> t]

\* a field the provider's payload does not have
Absent == "absent"

\* UserInfo.from_dict with 'sub' looked up before 'id'
UserInfo_from_dict_subFirst(data) ==
    [id |-> IF data.sub # Absent THEN data.sub
            ELSE IF data.id # Absent THEN data.id ELSE "",
     verified_email |->
        IF data.verified_email # Absent THEN data.verified_email
        ELSE IF data.email_verified # Absent THEN data.email_verified
        ELSE "None",
     raw_data |-> data]

\* UserInfo.from_dict: data.get('id', data.get('sub', '')) and
\* data.get('verified_email', data.get('email_verified'))
UserInfo_from_dict(data) ==
    [id |-> IF data.id # Absent THEN data.id
            ELSE IF data.sub # Absent THEN data.sub ELSE "",
     verified_email |->
        IF data.verified_email # Absent THEN data.verified_email
        ELSE IF data.email_verified # Absent THEN data.email_verified
        ELSE "None",
     raw_data |-> data]

\* ------------------------------------------------------------- token stores
\* user_ids a caller may use; the second, "../a", differs from the first by
\* characters outside [A-Za-z0-9_-] that mean something in a path
UserIds == {<<"a">>, <<".", ".", "/", "a">>, <<"b">>}

\* c.isalnum() on the characters in use
isalnum(c) == c \in {"a", "b"}

\* _get_token_path using the user_id as it comes
_get_token_path_unsanitized(user_id) == user_id

\* FileTokenStorage._get_token_path: the file name without ".json"
_get_token_path(user_id) ==
    SelectSeq(user_id, LAMBDA c : isalnum(c) \/ c \in {"_", "-"})

FileNames == {_get_token_path(u) : u \in UserIds}

\* the components of the path storage_dir / f"{name}.json" below the
\* storage directory: pathlib starts a new component at every "/"
RECURSIVE Split(_)
Split(name) ==
    IF \A i \in 1..Len(name) : name[i] # "/" THEN <<name>>
    ELSE LET i == CHOOSE i \in 1..Len(name) :
                     /\ name[i] = "/"
                     /\ \A j \in 1..(i - 1) : name[j] # "/"
         IN <<SubSeq(name, 1, i - 1)>> \o Split(SubSeq(name, i + 1, Len(name)))

\* what a path of the directory holds: nothing, the JSON object json.dump
\* wrote, text that is not JSON, JSON that is not an object, or a file that
\* cannot be opened
NoFile == [kind |-> "absent", data |-> to_dict(NoToken)]

JsonFile(data) == [kind |-> "json", data |-> data]

Damaged(kind) == [kind |-> kind, data |-> to_dict(NoToken)]

DamageKinds == {"corrupt", "array", "unreadable"}

\* outcome of a store method: what it raised, what it returned, and the
\* store it leaves
Outcome(exc, ret, flag, store) ==
    [exc |-> exc, ret |-> ret, flag |-> flag, store |-> store]

\* FileTokenStorage.save_token
save_token(dir, user_id, tokens) ==
    LET token_path == _get_token_path(user_id)
    IN IF dir[token_path].kind = "unreadable"
       THEN Outcome("TokenStorageError", NoToken, FALSE, dir)
       ELSE Outcome("none", NoToken, FALSE,
                    [dir EXCEPT ![token_path] = JsonFile(to_dict(tokens))])

\* get_token reporting "not found" for a file it cannot parse
get_token_corruptIsAbsent(dir, user_id, t) ==
    LET f == dir[_get_token_path(user_id)]
    IN IF f.kind = "json"
       THEN Outcome("none", TokenResponse_from_dict(f.data, t), FALSE, dir)
       ELSE Outcome("none", NoToken, FALSE, dir)

\* FileTokenStorage.get_token called at time t
get_token(dir, user_id, t) ==
    LET f == dir[_get_token_path(user_id)]
    IN IF f.kind = "absent" THEN Outcome("none", NoToken, FALSE, dir)
       ELSE IF f.kind = "json"
       THEN Outcome("none", TokenResponse_from_dict(f.data, t), FALSE, dir)
       ELSE Outcome("TokenStorageError", NoToken, FALSE, dir)

\* FileTokenStorage.delete_token
delete_token(dir, user_id) ==
    LET token_path == _get_token_path(user_id)
    IN IF dir[token_path].kind = "absent"
       THEN Outcome("none", NoToken, FALSE, dir)
       ELSE Outcome("none", NoToken, TRUE, [dir EXCEPT ![token_path] = NoFile])

\* FileTokenStorage.update_token
update_token(dir, user_id, tokens) == save_token(dir, user_id, tokens)

\* FileTokenStorage.clear_all
clear_all(dir) ==
    Outcome("none", NoToken, FALSE, [f \in DOMAIN dir |-> NoFile])

\* MemoryTokenStorage: the mapping from user_id to TokenResponse
Memory_save_token(map, user_id, tokens) ==
    Outcome("none", NoToken, FALSE, [map EXCEPT ![user_id] = tokens])

Memory_get_token(map, user_id) == Outcome("none", map[user_id], FALSE, map)

Memory_delete_token(map, user_id) ==
    IF map[user_id] = NoToken THEN Outcome("none", NoToken, FALSE, map)
    ELSE Outcome("none", NoToken, TRUE, [map EXCEPT ![user_id] = NoToken])

Memory_update_token(map, user_id, tokens) ==
    Memory_save_token(map, user_id, tokens)

Memory_clear_all(map) ==
    Outcome("none", NoToken, FALSE, [u \in DOMAIN map |-> NoToken])

\* a store nobody has written to
EmptyStore ==
    [memory |-> [u \in UserIds |-> NoToken],
     storage_dir |-> [f \in FileNames |-> NoFile],
     saved |-> [u \in UserIds |-> NoToken]]

\* the store call just completed: the method, its arguments, the store
\* before it, what it raised and what it returned
NoStoreCall ==
    [op |-> "none", user_id |-> <<>>, tokens |-> NoToken, pre |-> EmptyStore,
     exc |-> "none", ret |-> NoToken, flag |-> FALSE]

StoreCall(op, user_id, tokens, pre, r) ==
    [op |-> op, user_id |-> user_id, tokens |-> tokens, pre |-> pre,
     exc |-> r.exc, ret |-> r.ret, flag |-> r.flag]

\* the store a client gets by default, untouched
NoStore ==
    /\ storage = "memory"
    /\ memory = EmptyStore.memory
    /\ storage_dir = EmptyStore.storage_dir
    /\ saved = EmptyStore.saved
    /\ now = 0
    /\ store_last = NoStoreCall

\* ------------------------------------------------------------- model functions
\* tokens a provider may have issued, with every field the models read
TokenSamples ==
    {[TokenResponse(a, e, t) EXCEPT
        !.token_type = tt, !.refresh_token = rt, !.scope = sc] :
       a \in {"t1", ""}, e \in {NoneInt, 0, 1}, t \in 0..MaxTime,
       tt \in {"Bearer", "mac"}, rt \in {"None", "r1"},
       sc \in {"None", "openid email"}}

\* code verifiers: drawn ones and one a caller wrote, all of the URL-safe
\* alphabet
Verifiers == {Nonce(k) : k \in 1..MaxNonce} \cup {<<"t", "e", "s", "t">>}

\* payloads of an identity endpoint
Payloads ==
    [id : {Absent, "None", "1"}, sub : {Absent, "2"},
     verified_email : {Absent, "False"}, email_verified : {Absent, "True"}]

\* a function and what it is applied to; at and later are the times of the
\* clock at which it is evaluated
Input(fn, arg, at, later) == [fn |-> fn, arg |-> arg, at |-> at, later |-> later]

FunInputs ==
    {Input("from_dict", t, n, n) : t \in TokenSamples, n \in 0..(MaxTime + 1)}
    \cup {Input("is_expired", t, n[1], n[2]) :
            t \in TokenSamples,
            n \in {x \in (0..(MaxTime + 2)) \X (0..(MaxTime + 2)) : x[1] <= x[2]}}
    \cup {Input("_generate_code_challenge", v, 0, 0) : v \in Verifiers}
    \cup {Input("from_string", n, 0, 0) : n \in ProviderNames}
    \cup {Input("UserInfo.from_dict", d, 0, 0) : d \in Payloads}

NoInput == Input("none", "none", 0, 0)

NoOutput == [done |-> FALSE, val |-> "none"]

Done(val) == [done |-> TRUE, val |-> val]

NoFun == input = NoInput /\ output = NoOutput

\* ------------------------------------------------------------- web adapter
\* the browser sessions an adapter serves
Sessions == {"s1", "s2"}

\* a session without the adapter's keys: session.get(...) gives None
NoSession == [oauth_state |-> None, oauth_code_verifier |-> None]

\* the query string of a callback request: whether it has an error and a
\* code parameter, and its state parameter (None when it has none)
Callback(error, code, state) == [error |-> error, code |-> code, state |-> state]

NoCallback == Callback(FALSE, FALSE, None)

\* FlaskOAuth.authorize_redirect / DjangoOAuth.authorize_redirect on the
\* adapter's one client e, in the session sess; c counts the random draws
authorize_redirect(e, sess, scope, c) ==
    LET r == get_authorization_url(e, scope, None, c)
    IN [eng |-> r.eng, url |-> r.url, rng |-> r.rng,
        session |->
          [oauth_state |->
             IF Truthy(r.eng._state) THEN r.eng._state ELSE sess.oauth_state,
           oauth_code_verifier |->
             IF use_pkce /\ Truthy(r.eng._code_verifier)
             THEN r.eng._code_verifier ELSE sess.oauth_code_verifier],
        result |-> "ok", request |-> NoRequest]

\* an adapter call that raises before it touches the client
WebRaise(e, sess, kind) ==
    [eng |-> e, session |-> sess, result |-> kind, request |-> NoRequest]

\* FlaskOAuth.authorize_access_token / DjangoOAuth.authorize_access_token:
\* the session's verifier is put back on the client before exchange_code is
\* called; the session keys are popped only when exchange_code returns
authorize_access_token(e, sess, cb, o) ==
    IF cb.error THEN WebRaise(e, sess, "AuthorizationError")
    ELSE IF ~cb.code THEN WebRaise(e, sess, "AuthorizationError")
    ELSE IF Truthy(sess.oauth_state) /\ cb.state # sess.oauth_state
    THEN WebRaise(e, sess, "InvalidStateError")
    ELSE LET e1 == IF use_pkce /\ Truthy(sess.oauth_code_verifier)
                   THEN [e EXCEPT !._code_verifier = sess.oauth_code_verifier]
                   ELSE e
             r  == exchange_code(e1, cb.state, TRUE, o)
         IN [eng |-> r.eng,
             session |-> IF r.result = "ok" THEN NoSession ELSE sess,
             result |-> r.result, request |-> r.request]

\* the adapter call just completed: the method, the session it ran in, the
\* callback it handled, the session and the client before it, how it ended
\* and the token request it sent
NoWebCall ==
    [op |-> "none", sid |-> "none", callback |-> NoCallback,
     pre_session |-> NoSession, pre |-> InitEngine, result |-> "none",
     request |-> NoRequest]

WebCall(op, sid, cb, sess, e, r) ==
    [op |-> op, sid |-> sid, callback |-> cb, pre_session |-> sess, pre |-> e,
     result |-> r.result, request |-> r.request]

NoWeb ==
    /\ session = [s \in Sessions |-> NoSession]
    /\ web_last = NoWebCall

\* ------------------------------------------------------------- async calls
\* exchange_code_async coroutines a caller may have started
Tasks == {"t1", "t2"}

\* a coroutine that is not running: where it stands, the arguments it was
\* called with, the client's fields when it was called, how it ended and
\* the token request it built
NoTask ==
    [pc |-> "idle", state |-> None, validate_state |-> FALSE,
     pre |-> InitEngine, result |-> "none", request |-> NoRequest]

NoTasks == tasks = [t \in Tasks |-> NoTask]

\* exchange_code_async up to "await make_async_request(...)": the state
\* check, the verifier check and the request data, which takes the
\* verifier the client holds at this moment
exchange_code_async_begin(e, state, validate_state) ==
    IF StateRejected(e, state, validate_state)
    THEN Raise(e, "InvalidStateError", NoRequest)
    ELSE IF use_pkce /\ HasAttr(provider, "exchange_code_for_access_token_pkce")
    THEN IF ~Truthy(e._code_verifier)
         THEN Raise(e, "AuthorizationError", NoRequest)
         ELSE [eng |-> e, result |-> "await",
               request |-> PkceRequest(e._code_verifier)]
    ELSE [eng |-> e, result |-> "await", request |-> Request("standard")]

\* exchange_code_async from the await on, on the client as it is by then
exchange_code_async_resume(e, req, o) ==
    AfterTokenData(e, make_async_request(o), req)

\* ------------------------------------------------------------- security audit
\* a redirect URI as urlparse sees it; NoUri is one that is not set
NoUri == [scheme |-> "", hostname |-> ""]

RedirectUris ==
    {NoUri,
     [scheme |-> "http", hostname |-> "app.example"],
     [scheme |-> "http", hostname |-> "localhost"],
     [scheme |-> "https", hostname |-> "app.example"]}

\* the token_storage of a client: the default, the file store, or a
\* storage class of the caller's
TokenStorages == {"MemoryTokenStorage", "FileTokenStorage", "custom"}

\* scopes a client is configured with; "admin" is a list with a scope that
\* contains one of the broad names
AuditedScopes == ConfiguredScopes \cup {"admin"}

\* what audit reads from client m
Client(m) ==
    [use_pkce |-> use_pkce, redirect_uri |-> redirect_uri,
     _state |-> eng[m]._state, token_storage |-> token_storage,
     scopes |-> args.scopes, client_id |-> args.client_id,
     client_secret |-> args.client_secret]

\* SecurityAuditor.__init__, and the three assignments audit starts with
NewAuditor == [issues |-> <<>>, passed_checks |-> 0, failed_checks |-> 0]

\* a check that appends an issue and counts as failed
Failed_check(a, severity, title) ==
    [issues |-> Append(a.issues, [severity |-> severity, title |-> title]),
     passed_checks |-> a.passed_checks, failed_checks |-> a.failed_checks + 1]

\* a check that counts as passed
Passed_check(a) == [a EXCEPT !.passed_checks = a.passed_checks + 1]

\* an INFO issue appended without counting a check
Info(a, title) ==
    [a EXCEPT !.issues = Append(a.issues, [severity |-> "info", title |-> title])]

_check_pkce(a, c) ==
    IF ~c.use_pkce THEN Failed_check(a, "high", "PKCE Not Enabled")
    ELSE Passed_check(a)

Localhost == {"localhost", "127.0.0.1"}

_check_redirect_uri(a, c) ==
    IF c.redirect_uri = NoUri
    THEN Failed_check(a, "critical", "No Redirect URI Configured")
    ELSE LET u  == c.redirect_uri
             a1 == IF u.scheme = "http" /\ u.hostname \notin Localhost
                   THEN Failed_check(a, "critical", "Insecure Redirect URI (HTTP)")
                   ELSE Passed_check(a)
         IN IF u.hostname \in Localhost /\ u.scheme = "http"
            THEN Info(a1, "Localhost Redirect URI Detected")
            ELSE a1

_check_state_validation(a, c) ==
    IF c._state = None
    THEN Failed_check(a, "medium", "State Validation Not Active")
    ELSE Passed_check(a)

_check_token_storage(a, c) ==
    IF c.token_storage = "MemoryTokenStorage"
    THEN Failed_check(a, "medium", "Tokens Stored in Memory")
    ELSE IF c.token_storage = "FileTokenStorage"
    THEN Failed_check(a, "low", "File-based Token Storage")
    ELSE Passed_check(a)

_check_scopes(a, c) ==
    IF c.scopes = NoScope THEN Failed_check(a, "low", "No Scopes Specified")
    ELSE IF c.scopes = "admin"
    THEN Failed_check(a, "medium", "Overly Broad Scopes Requested")
    ELSE Passed_check(a)

_check_client_credentials(a, c) ==
    IF ~Truthy(c.client_id) THEN Failed_check(a, "critical", "No Client ID")
    ELSE IF ~c.use_pkce /\ ~Truthy(c.client_secret)
    THEN Failed_check(Passed_check(a), "critical",
                      "No Client Secret and PKCE Disabled")
    ELSE Passed_check(Passed_check(a))

_check_token_expiration(a, c) == Info(a, "Token Expiration Monitoring")

\* the points one issue takes off the score
Deduction(severity) ==
    CASE severity = "critical" -> 30
      [] severity = "high"     -> 20
      [] severity = "medium"   -> 10
      [] severity = "low"      -> 5
      [] OTHER                 -> 0

\* the loop of _calculate_score: 100 less the points of every issue
RECURSIVE Deduct(_, _)
Deduct(score, issues) ==
    IF issues = <<>> THEN score
    ELSE Deduct(score - Deduction(Head(issues).severity), Tail(issues))

\* _calculate_score returning the score below zero as it is
_calculate_score_unclamped(a) == Deduct(100, a.issues)

\* SecurityAuditor._calculate_score: "return max(0, score)"
_calculate_score(a) ==
    IF Deduct(100, a.issues) < 0 THEN 0 ELSE Deduct(100, a.issues)

\* the seven checks in the order audit runs them
Checks(a, c) ==
    _check_token_expiration(
      _check_client_credentials(
        _check_scopes(
          _check_token_storage(
            _check_state_validation(
              _check_redirect_uri(_check_pkce(a, c), c), c), c), c), c), c)

\* the auditor's fields and the SecurityReport after the checks
Audited(a) ==
    [auditor |-> a,
     report |-> [issues |-> a.issues, score |-> _calculate_score(a),
                 passed_checks |-> a.passed_checks,
                 failed_checks |-> a.failed_checks,
                 total_checks |-> a.passed_checks + a.failed_checks]]

\* audit going on from what the auditor's fields hold
audit_accumulates(a, c) == Audited(Checks(a, c))

\* SecurityAuditor.audit: the fields are set back, the checks run, the
\* report is made of the fields
audit(a, c) == Audited(Checks(NewAuditor, c))

\* no auditor is in use
NoAudit ==
    /\ redirect_uri = NoUri
    /\ token_storage = "MemoryTokenStorage"
    /\ auditor = NewAuditor
    /\ reports = <<>>

\* nothing outside clients, constructor and stores is in use
NoOther == NoFun /\ NoWeb /\ NoTasks /\ NoAudit

\* ------------------------------------------------------------- behaviour
\* one engine of either kind, or one of each driven by the same calls
Init ==
    /\ provider \in ProviderIds
    /\ use_pkce \in BOOLEAN
    /\ active \in {{"sync"}, {"async"}, Modes}
    /\ eng = [m \in Modes |-> InitEngine]
    /\ url = [m \in Modes |-> NoUrl]
    /\ rng = 0
    /\ last = [m \in Modes |-> NoCall]
    /\ issued = {}
    /\ args = ArgsFor("Providers", provider, use_pkce)
    /\ constructed = "ok"
    /\ NoStore
    /\ NoOther

\* operations on one engine run in the order invoked: no call is under way
Idle == \A m \in Modes : last[m].op = "none"

\* random draws one get_authorization_url call makes
Draws(state) == (IF Truthy(state) THEN 0 ELSE 1) + (IF use_pkce THEN 1 ELSE 0)

\* the draw counter an engine starts from when every active engine makes the
\* same call in turn, the blocking one first
Base(m, state) ==
    IF m = "async" /\ "sync" \in active THEN rng + Draws(state) ELSE rng

GetAuthorizationUrl(scope, state) ==
    /\ Idle
    /\ rng + Cardinality(active) * Draws(state) <= MaxNonce
    /\ LET r == [m \in Modes |->
                   get_authorization_url(eng[m], scope, state, Base(m, state))]
       IN /\ eng' = [m \in Modes |-> IF m \in active THEN r[m].eng ELSE eng[m]]
          /\ url' = [m \in Modes |-> IF m \in active THEN r[m].url ELSE url[m]]
          /\ last' = [m \in Modes |->
                        IF m \in active
                        THEN Call("get_authorization_url", scope, state, FALSE,
                                  "none", eng[m], r[m])
                        ELSE last[m]]
          /\ issued' = issued \cup {r[m].eng._state : m \in active}
    /\ rng' = rng + Cardinality(active) * Draws(state)
    /\ UNCHANGED <<provider, use_pkce, active, ctorVars, storeVars, otherVars>>

\* a call that is not get_authorization_url, made on every active engine;
\* r[m] is what the call does on engine m
Apply(op, a, validate_state, o, r) ==
    /\ Idle
    /\ eng' = [m \in Modes |-> IF m \in active THEN r[m].eng ELSE eng[m]]
    /\ last' = [m \in Modes |->
                  IF m \in active
                  THEN Call(op, NoScope, Resolve(m, a), validate_state, o,
                            eng[m], r[m])
                  ELSE last[m]]
    /\ UNCHANGED <<provider, use_pkce, active, url, rng, issued, ctorVars,
                   storeVars, otherVars>>

NoArg == [kind |-> "none", val |-> None]

ExchangeCode(a, validate_state, o) ==
    Apply("exchange_code", a, validate_state, o,
          [m \in Modes |->
             IF m = "sync"
             THEN exchange_code(eng[m], Resolve(m, a), validate_state, o)
             ELSE exchange_code_async(eng[m], Resolve(m, a), validate_state, o)])

RefreshToken(o) ==
    Apply("refresh_token", NoArg, FALSE, o,
          [m \in Modes |-> IF m = "sync" THEN refresh_token(eng[m], o)
                           ELSE refresh_token_async(eng[m], o)])

RevokeToken(o) ==
    Apply("revoke_token", NoArg, FALSE, o,
          [m \in Modes |-> IF m = "sync" THEN revoke_token(eng[m], o)
                           ELSE revoke_token_async(eng[m], o)])

GetUserInfo(o) ==
    Apply("get_user_info", NoArg, FALSE, o,
          [m \in Modes |-> IF m = "sync" THEN get_user_info(eng[m], o)
                           ELSE get_user_info_async(eng[m], o)])

\* the completed call is handed back to the caller
Return ==
    /\ ~Idle
    /\ last' = [m \in Modes |-> NoCall]
    /\ UNCHANGED <<provider, use_pkce, active, eng, url, rng, issued, ctorVars,
                   storeVars, otherVars>>

Next ==
    \/ \E scope \in ScopeArgs, state \in AuthStateArgs :
          GetAuthorizationUrl(scope, state)
    \/ \E a \in StateArgs, v \in BOOLEAN, o \in Outcomes : ExchangeCode(a, v, o)
    \/ \E o \in Outcomes : RefreshToken(o)
    \/ \E o \in Outcomes : RevokeToken(o)
    \/ \E o \in Outcomes : GetUserInfo(o)
    \/ Return

Spec == Init /\ [][Next]_vars

\* ------------------------------------------------------------- construction
\* no client is in use
NoClients ==
    /\ provider = "discord"
    /\ use_pkce = FALSE
    /\ active = {}
    /\ eng = [m \in Modes |-> InitEngine]
    /\ url = [m \in Modes |-> NoUrl]
    /\ rng = 0
    /\ last = [m \in Modes |-> NoCall]
    /\ issued = {}
    /\ args = ArgsFor("Providers", provider, use_pkce)
    /\ constructed = "ok"

\* a caller is about to construct a client of either kind
ConstructInit ==
    /\ args \in CtorArgs
    /\ constructed = "no"
    /\ active \in {{"sync"}, {"async"}}
    /\ provider = "unset"
    /\ use_pkce = FALSE
    /\ eng = [m \in Modes |-> NoEngine]
    /\ url = [m \in Modes |-> NoUrl]
    /\ rng = 0
    /\ last = [m \in Modes |-> NoCall]
    /\ issued = {}
    /\ NoStore
    /\ NoOther

\* the constructor runs
Construct ==
    /\ constructed = "no"
    /\ LET r == __init__(args)
       IN /\ constructed' = IF r.exc = "none" THEN "ok" ELSE r.exc
          /\ provider' = r.provider
          /\ use_pkce' = IF r.exc = "none" THEN args.use_pkce ELSE use_pkce
          /\ eng' = [m \in Modes |-> IF m \in active THEN r.eng ELSE eng[m]]
    /\ UNCHANGED <<active, url, rng, last, issued, args, storeVars, otherVars>>

ConstructNext == Construct

ConstructSpec == ConstructInit /\ [][ConstructNext]_vars

\* ------------------------------------------------------------- shared provider
\* a blocking and a non-blocking client were both constructed with the same
\* provider instance; each is called on its own
SharedInit ==
    /\ provider = "discord"
    /\ use_pkce \in BOOLEAN
    /\ active = Modes
    /\ eng = [m \in Modes |-> InitEngine]
    /\ url = [m \in Modes |-> NoUrl]
    /\ rng = 0
    /\ last = [m \in Modes |-> NoCall]
    /\ issued = {}
    /\ args = ArgsFor("BaseProvider", provider, use_pkce)
    /\ constructed = "ok"
    /\ NoStore
    /\ NoOther

\* get_authorization_url on client m: "self.provider.scopes = scope" writes
\* the one provider object both clients hold
GetAuthorizationUrlOn(m, scope, state) ==
    /\ Idle
    /\ rng + Draws(state) <= MaxNonce
    /\ LET r == get_authorization_url(eng[m], scope, state, rng)
       IN /\ eng' = [n \in Modes |->
                       IF n = m THEN r.eng
                       ELSE [eng[n] EXCEPT
                               !.provider_scopes = r.eng.provider_scopes]]
          /\ url' = [url EXCEPT ![m] = r.url]
          /\ last' = [last EXCEPT
                        ![m] = Call("get_authorization_url", scope, state,
                                    FALSE, "none", eng[m], r)]
          /\ issued' = issued \cup {r.eng._state}
          /\ rng' = r.rng
    /\ UNCHANGED <<provider, use_pkce, active, ctorVars, storeVars, otherVars>>

\* exchange_code on client m
ExchangeCodeOn(m, a, validate_state, o) ==
    /\ Idle
    /\ LET r == IF m = "sync"
                THEN exchange_code(eng[m], Resolve(m, a), validate_state, o)
                ELSE exchange_code_async(eng[m], Resolve(m, a),
                                         validate_state, o)
       IN /\ eng' = [eng EXCEPT ![m] = r.eng]
          /\ last' = [last EXCEPT
                        ![m] = Call("exchange_code", NoScope, Resolve(m, a),
                                    validate_state, o, eng[m], r)]
    /\ UNCHANGED <<provider, use_pkce, active, url, rng, issued, ctorVars,
                   storeVars, otherVars>>

SharedNext ==
    \/ \E m \in Modes, scope \in ScopeArgs, state \in AuthStateArgs :
          GetAuthorizationUrlOn(m, scope, state)
    \/ \E m \in Modes, a \in StateArgs, o \in {"dict", "none"} :
          ExchangeCodeOn(m, a, TRUE, o)
    \/ Return

SharedSpec == SharedInit /\ [][SharedNext]_vars

\* ------------------------------------------------------------- store calls
\* one store of either variant, written and read by one caller
StoreInit ==
    /\ storage \in {"memory", "file"}
    /\ memory = EmptyStore.memory
    /\ storage_dir = EmptyStore.storage_dir
    /\ saved = EmptyStore.saved
    /\ now = 0
    /\ store_last = NoStoreCall
    /\ NoClients
    /\ NoOther

StoreIdle == store_last.op = "none"

Current == [memory |-> memory, storage_dir |-> storage_dir, saved |-> saved]

\* a store method ran with outcome r; saved1 is what the caller has stored
\* per user_id if the method did not raise
StoreApply(op, user_id, tokens, r, saved1) ==
    /\ StoreIdle
    /\ IF storage = "memory"
       THEN memory' = r.store /\ UNCHANGED storage_dir
       ELSE storage_dir' = r.store /\ UNCHANGED memory
    /\ saved' = IF r.exc = "none" THEN saved1 ELSE saved
    /\ store_last' = StoreCall(op, user_id, tokens, Current, r)
    /\ UNCHANGED <<storage, now, clientVars, ctorVars, otherVars>>

SaveToken(user_id, a) ==
    LET tokens == TokenResponse(a.access_token, a.expires_in, now)
    IN StoreApply("save_token", user_id, tokens,
                  IF storage = "memory"
                  THEN Memory_save_token(memory, user_id, tokens)
                  ELSE save_token(storage_dir, user_id, tokens),
                  [saved EXCEPT ![user_id] = tokens])

UpdateToken(user_id, a) ==
    LET tokens == TokenResponse(a.access_token, a.expires_in, now)
    IN StoreApply("update_token", user_id, tokens,
                  IF storage = "memory"
                  THEN Memory_update_token(memory, user_id, tokens)
                  ELSE update_token(storage_dir, user_id, tokens),
                  [saved EXCEPT ![user_id] = tokens])

GetToken(user_id) ==
    StoreApply("get_token", user_id, NoToken,
               IF storage = "memory" THEN Memory_get_token(memory, user_id)
               ELSE get_token(storage_dir, user_id, now),
               saved)

DeleteToken(user_id) ==
    StoreApply("delete_token", user_id, NoToken,
               IF storage = "memory" THEN Memory_delete_token(memory, user_id)
               ELSE delete_token(storage_dir, user_id),
               [saved EXCEPT ![user_id] = NoToken])

ClearAll ==
    StoreApply("clear_all", <<>>, NoToken,
               IF storage = "memory" THEN Memory_clear_all(memory)
               ELSE clear_all(storage_dir),
               [u \in UserIds |-> NoToken])

\* time passes
Tick ==
    /\ StoreIdle
    /\ now < MaxTime
    /\ now' = now + 1
    /\ UNCHANGED <<storage, memory, storage_dir, saved, store_last, clientVars,
                   ctorVars, otherVars>>

\* something outside the store overwrites a token file or takes away the
\* permission to open it
Damage(f, kind) ==
    /\ StoreIdle
    /\ storage = "file"
    /\ storage_dir[f].kind # "absent"
    /\ storage_dir' = [storage_dir EXCEPT ![f] = Damaged(kind)]
    /\ UNCHANGED <<storage, memory, saved, now, store_last, clientVars,
                   ctorVars, otherVars>>

\* the completed store call is handed back to the caller
StoreReturn ==
    /\ ~StoreIdle
    /\ store_last' = NoStoreCall
    /\ UNCHANGED <<storage, memory, storage_dir, saved, now, clientVars,
                   ctorVars, otherVars>>

StoreNext ==
    \/ \E u \in UserIds, a \in TokenArgs : SaveToken(u, a)
    \/ \E u \in UserIds, a \in TokenArgs : UpdateToken(u, a)
    \/ \E u \in UserIds : GetToken(u)
    \/ \E u \in UserIds : DeleteToken(u)
    \/ ClearAll
    \/ Tick
    \/ \E f \in FileNames, k \in DamageKinds : Damage(f, k)
    \/ StoreReturn

StoreSpec == StoreInit /\ [][StoreNext]_vars

\* ------------------------------------------------------------- applying the
\* model functions
FunInit ==
    /\ input \in FunInputs
    /\ output = NoOutput
    /\ NoClients
    /\ NoStore
    /\ NoWeb
    /\ NoTasks
    /\ NoAudit

\* the function named by the input is applied
Applied(fn, val) ==
    /\ input.fn = fn
    /\ ~output.done
    /\ output' = Done(val)
    /\ UNCHANGED <<input, clientVars, ctorVars, storeVars, webVars, taskVars, auditVars>>

\* TokenResponse.from_dict(t.to_dict()) at time input.at
RoundTrip ==
    Applied("from_dict", TokenResponse_from_dict(to_dict(input.arg), input.at))

\* t.is_expired read at time input.at and again at time input.later
IsExpired ==
    Applied("is_expired",
            [first |-> is_expired(input.arg, input.at),
             second |-> is_expired(input.arg, input.later)])

CodeChallenge ==
    Applied("_generate_code_challenge", _generate_code_challenge(input.arg))

\* Providers.from_string(name), and a client constructed from the same name
FromString ==
    Applied("from_string",
            [provider |-> from_string(input.arg),
             message |-> UnknownProvider(input.arg),
             constructed |->
                __init__(ArgsFor("str", input.arg, FALSE)).exc])

UserInfoFromDict == Applied("UserInfo.from_dict", UserInfo_from_dict(input.arg))

FunNext ==
    \/ RoundTrip
    \/ IsExpired
    \/ CodeChallenge
    \/ FromString
    \/ UserInfoFromDict

FunSpec == FunInit /\ [][FunNext]_vars

\* ------------------------------------------------------------- web requests
\* one adapter, hence one blocking client, serves the requests of two
\* browser sessions one after another
WebInit ==
    /\ provider = "discord"
    /\ use_pkce \in BOOLEAN
    /\ active = {"sync"}
    /\ eng = [m \in Modes |-> InitEngine]
    /\ url = [m \in Modes |-> NoUrl]
    /\ rng = 0
    /\ last = [m \in Modes |-> NoCall]
    /\ issued = {}
    /\ args = ArgsFor("Providers", provider, use_pkce)
    /\ constructed = "ok"
    /\ NoStore
    /\ NoFun
    /\ NoWeb
    /\ NoTasks
    /\ NoAudit

\* requests are handled one at a time
WebIdle == web_last.op = "none"

\* where the state parameter of a callback comes from: the callback has
\* none, it is made up, it is the one the client holds, or it is the one
\* stored in a session
CallbackStates == {"none", "forged", "client"} \cup Sessions

CallbackState(k) ==
    CASE k = "none"   -> None
      [] k = "forged" -> ForgedState
      [] k = "client" -> eng["sync"]._state
      [] OTHER        -> session[k].oauth_state

\* a request to the login view of session sid
AuthorizeRedirect(sid, scope) ==
    /\ WebIdle
    /\ rng + Draws(None) <= MaxNonce
    /\ LET r == authorize_redirect(eng["sync"], session[sid], scope, rng)
       IN /\ eng' = [eng EXCEPT !["sync"] = r.eng]
          /\ url' = [url EXCEPT !["sync"] = r.url]
          /\ rng' = r.rng
          /\ issued' = issued \cup {r.eng._state}
          /\ session' = [session EXCEPT ![sid] = r.session]
          /\ web_last' = WebCall("authorize_redirect", sid, NoCallback,
                                 session[sid], eng["sync"], r)
    /\ UNCHANGED <<provider, use_pkce, active, last, ctorVars, storeVars,
                   funVars, taskVars, auditVars>>

\* a request to the callback view of session sid
AuthorizeAccessToken(sid, error, code, k, o) ==
    /\ WebIdle
    /\ LET cb == Callback(error, code, CallbackState(k))
           r  == authorize_access_token(eng["sync"], session[sid], cb, o)
       IN /\ eng' = [eng EXCEPT !["sync"] = r.eng]
          /\ session' = [session EXCEPT ![sid] = r.session]
          /\ web_last' = WebCall("authorize_access_token", sid, cb,
                                 session[sid], eng["sync"], r)
    /\ UNCHANGED <<provider, use_pkce, active, url, rng, last, issued,
                   ctorVars, storeVars, funVars, taskVars, auditVars>>

\* the response is sent
WebReturn ==
    /\ ~WebIdle
    /\ web_last' = NoWebCall
    /\ UNCHANGED <<clientVars, ctorVars, storeVars, funVars, session, taskVars, auditVars>>

WebNext ==
    \/ \E sid \in Sessions, scope \in ScopeArgs : AuthorizeRedirect(sid, scope)
    \/ \E sid \in Sessions, error \in BOOLEAN, code \in BOOLEAN,
          k \in CallbackStates, o \in Outcomes :
          AuthorizeAccessToken(sid, error, code, k, o)
    \/ WebReturn

WebSpec == WebInit /\ [][WebNext]_vars

\* ------------------------------------------------------------- coroutines
\* one non-blocking client; its exchange_code_async coroutines run on one
\* event loop and give way to each other and to the caller at the await
AsyncInit ==
    /\ provider = "discord"
    /\ use_pkce \in BOOLEAN
    /\ active = {"async"}
    /\ eng = [m \in Modes |-> InitEngine]
    /\ url = [m \in Modes |-> NoUrl]
    /\ rng = 0
    /\ last = [m \in Modes |-> NoCall]
    /\ issued = {}
    /\ args = ArgsFor("Providers", provider, use_pkce)
    /\ constructed = "ok"
    /\ NoStore
    /\ NoFun
    /\ NoWeb
    /\ NoTasks
    /\ NoAudit

\* the state a callback handed to exchange_code_async carries: none, the
\* state parameter of the URL handed out last, or one made up
AsyncStateArgs ==
    {[kind |-> k, val |-> None] : k \in {"none", "echo"}}
    \cup {[kind |-> "lit", val |-> ForgedState]}

\* get_authorization_url is not a coroutine: it runs to its end whenever
\* the caller has control, with a state of its own making
AsyncGetAuthorizationUrl(scope) ==
    /\ rng + Draws(None) <= MaxNonce
    /\ LET r == get_authorization_url(eng["async"], scope, None, rng)
       IN /\ eng' = [eng EXCEPT !["async"] = r.eng]
          /\ url' = [url EXCEPT !["async"] = r.url]
          /\ rng' = r.rng
          /\ issued' = issued \cup {r.eng._state}
    /\ UNCHANGED <<provider, use_pkce, active, last, ctorVars, storeVars,
                   funVars, webVars, taskVars, auditVars>>

\* coroutine t is started and runs until it raises or awaits the transport
ExchangeStart(t, a, validate_state) ==
    /\ tasks[t].pc = "idle"
    /\ LET state == Resolve("async", a)
           r     == exchange_code_async_begin(eng["async"], state, validate_state)
       IN tasks' = [tasks EXCEPT ![t] =
                      [pc |-> IF r.result = "await" THEN "awaiting" ELSE "done",
                       state |-> state, validate_state |-> validate_state,
                       pre |-> eng["async"],
                       result |-> IF r.result = "await" THEN "none" ELSE r.result,
                       request |-> r.request]]
    /\ UNCHANGED <<clientVars, ctorVars, storeVars, funVars, webVars, auditVars>>

\* the transport answers coroutine t, which runs to its end
ExchangeResume(t, o) ==
    /\ tasks[t].pc = "awaiting"
    /\ LET r == exchange_code_async_resume(eng["async"], tasks[t].request, o)
       IN /\ eng' = [eng EXCEPT !["async"] = r.eng]
          /\ tasks' = [tasks EXCEPT ![t].pc = "done", ![t].result = r.result]
    /\ UNCHANGED <<provider, use_pkce, active, url, rng, last, issued,
                   ctorVars, storeVars, funVars, webVars, auditVars>>

\* the caller takes the result of coroutine t
TaskReturn(t) ==
    /\ tasks[t].pc = "done"
    /\ tasks' = [tasks EXCEPT ![t] = NoTask]
    /\ UNCHANGED <<clientVars, ctorVars, storeVars, funVars, webVars, auditVars>>

AsyncNext ==
    \/ \E scope \in ScopeArgs : AsyncGetAuthorizationUrl(scope)
    \/ \E t \in Tasks, a \in AsyncStateArgs, v \in BOOLEAN : ExchangeStart(t, a, v)
    \/ \E t \in Tasks, o \in Outcomes : ExchangeResume(t, o)
    \/ \E t \in Tasks : TaskReturn(t)

AsyncSpec == AsyncInit /\ [][AsyncNext]_vars

\* ------------------------------------------------------------- audits
\* a client of either kind as its constructor left it, and a new auditor
AuditInit ==
    /\ provider = "discord"
    /\ active \in {{"sync"}, {"async"}}
    /\ args \in [provider : {[type |-> "Providers", val |-> provider]},
                 client_id : {<<"i">>}, client_secret : ClientSecrets,
                 scopes : AuditedScopes, use_pkce : BOOLEAN]
    /\ use_pkce = args.use_pkce
    /\ eng = [m \in Modes |->
                [InitEngine EXCEPT !.provider_scopes = ProviderScopes(args.scopes)]]
    /\ url = [m \in Modes |-> NoUrl]
    /\ rng = 0
    /\ last = [m \in Modes |-> NoCall]
    /\ issued = {}
    /\ constructed = "ok"
    /\ redirect_uri \in RedirectUris
    /\ token_storage \in TokenStorages
    /\ auditor = NewAuditor
    /\ reports = <<>>
    /\ NoStore
    /\ NoFun
    /\ NoWeb
    /\ NoTasks

\* auditor.audit(client)
Audit ==
    /\ Len(reports) < MaxAudits
    /\ LET m == CHOOSE n \in Modes : n \in active
           r == audit(auditor, Client(m))
       IN /\ auditor' = r.auditor
          /\ reports' = Append(reports, [client |-> Client(m), report |-> r.report])
    /\ UNCHANGED <<clientVars, ctorVars, storeVars, funVars, webVars, tasks,
                   redirect_uri, token_storage>>

\* between audits the caller starts an authorization on the client
AuditedGetAuthorizationUrl ==
    /\ rng + Draws(None) <= MaxNonce
    /\ LET m == CHOOSE n \in Modes : n \in active
           r == get_authorization_url(eng[m], NoScope, None, rng)
       IN /\ eng' = [eng EXCEPT ![m] = r.eng]
          /\ url' = [url EXCEPT ![m] = r.url]
          /\ rng' = r.rng
          /\ issued' = issued \cup {r.eng._state}
    /\ UNCHANGED <<provider, use_pkce, active, last, ctorVars, storeVars,
                   funVars, webVars, taskVars, auditVars>>

\* or completes one
AuditedExchangeCode ==
    /\ LET m == CHOOSE n \in Modes : n \in active
           r == IF m = "sync"
                THEN exchange_code(eng[m], eng[m]._state, TRUE, "dict")
                ELSE exchange_code_async(eng[m], eng[m]._state, TRUE, "dict")
       IN /\ Truthy(eng[m]._state)
          /\ eng' = [eng EXCEPT ![m] = r.eng]
    /\ UNCHANGED <<provider, use_pkce, active, url, rng, last, issued,
                   ctorVars, storeVars, funVars, webVars, taskVars, auditVars>>

AuditNext == Audit \/ AuditedGetAuthorizationUrl \/ AuditedExchangeCode

AuditSpec == AuditInit /\ [][AuditNext]_vars

\* ------------------------------------------------------------- claims
\* C1: an exchange with validate_state=True and a non-empty state that has
\* no stored state to match, or differs from the stored one, ends in
\* InvalidStateError on either client and sends no request.
C1_MismatchedStateRejected ==
    \A m \in active :
       (/\ last[m].op = "exchange_code"
        /\ last[m].validate_state
        /\ last[m].state # None /\ last[m].state # <<>>
        /\ (last[m].pre._state = None \/ last[m].state # last[m].pre._state))
       => /\ last[m].result = "InvalidStateError"
          /\ last[m].request.kind = "none"

\* a forged callback was rejected while a state was stored, on both clients
C1_Witness ==
    /\ active = Modes
    /\ \A m \in Modes :
          /\ last[m].op = "exchange_code"
          /\ last[m].validate_state
          /\ last[m].state = ForgedState
          /\ last[m].pre._state \notin {None, ForgedState}
          /\ last[m].result = "InvalidStateError"

\* C2: get_authorization_url sets current_state (and, under PKCE, the code
\* verifier); a successful exchange leaves both unset; from then on an
\* exchange that validates a non-empty state fails with InvalidStateError,
\* and only another get_authorization_url stores a state again.
C2_ConsumedOnce ==
    /\ [](\A m \in active :
            /\ last[m].op = "get_authorization_url"
               => /\ eng[m]._state # None
                  /\ use_pkce => eng[m]._code_verifier # None
            /\ (last[m].op = "exchange_code" /\ last[m].result = "ok")
               => /\ eng[m]._state = None
                  /\ eng[m]._code_verifier = None
            /\ (/\ last[m].op = "exchange_code"
                /\ last[m].pre._state = None
                /\ last[m].validate_state
                /\ last[m].state \notin {None, <<>>})
               => last[m].result = "InvalidStateError")
    /\ [][\A m \in active :
            (eng[m]._state = None /\ eng'[m]._state # None)
            => last'[m].op = "get_authorization_url"]_vars

\* after a URL was issued and its state consumed, a callback that repeats
\* the URL's state was rejected
C2_Witness ==
    \E m \in active :
       /\ url[m].stateRaw # None
       /\ last[m].op = "exchange_code"
       /\ last[m].pre._state = None
       /\ last[m].validate_state
       /\ last[m].state = UrlState(url[m])
       /\ last[m].result = "InvalidStateError"

\* C3 (as claimed): every exchange that sent its request, whatever came
\* back, leaves current_state and current_code_verifier unset.
C3_ClearedOnAnyOutcome ==
    \A m \in active :
       (last[m].op = "exchange_code" /\ last[m].request.kind # "none")
       => /\ eng[m]._state = None
          /\ eng[m]._code_verifier = None

\* C4 (as claimed): after get_authorization_url the state parameter of the
\* returned URL is the stored current_state.
C4_UrlStateIsStored ==
    \A m \in active :
       last[m].op = "get_authorization_url" => UrlState(url[m]) = eng[m]._state

\* C5: under PKCE the URL carries code_challenge_method=S256 and the
\* challenge of the verifier just stored; a request that reaches the
\* transport is the PKCE variant with the stored verifier, the one whose
\* challenge the URL carried; without PKCE it is the standard request.
C5_PkceBinding ==
    \A m \in active :
       /\ (last[m].op = "get_authorization_url" /\ use_pkce)
          => /\ eng[m]._code_verifier # None
             /\ url[m].code_challenge_method = "S256"
             /\ url[m].code_challenge = <<"S256">> \o eng[m]._code_verifier
       /\ (last[m].op = "exchange_code" /\ last[m].request.kind # "none")
          => IF use_pkce
             THEN /\ last[m].request.kind = "pkce"
                  /\ last[m].request.code_verifier # None
                  /\ last[m].request.code_verifier = last[m].pre._code_verifier
                  /\ url[m].code_challenge
                        = <<"S256">> \o last[m].request.code_verifier
             ELSE last[m].request.kind = "standard"

\* a PKCE exchange request went out on both clients
C5_Witness ==
    /\ active = Modes
    /\ use_pkce
    /\ \A m \in Modes :
          /\ last[m].op = "exchange_code"
          /\ last[m].request.kind = "pkce"
          /\ last[m].result = "ok"

\* C6 (as claimed): under PKCE an exchange on an engine that holds no code
\* verifier fails with AuthorizationError and sends no request.
C6_NoVerifierAuthorizationError ==
    \A m \in active :
       (last[m].op = "exchange_code" /\ use_pkce
        /\ last[m].pre._code_verifier = None)
       => /\ last[m].result = "AuthorizationError"
          /\ last[m].request.kind = "none"

\* C6 (amended): under PKCE an exchange on an engine that holds no code
\* verifier sends no request and fails: with InvalidStateError when the
\* state check rejects the call, with AuthorizationError otherwise.
C6_NoVerifierFailsBeforeRequest ==
    \A m \in active :
       (last[m].op = "exchange_code" /\ use_pkce
        /\ last[m].pre._code_verifier = None)
       => /\ last[m].request.kind = "none"
          /\ last[m].result =
                IF /\ last[m].validate_state
                   /\ last[m].state \notin {None, <<>>}
                   /\ (last[m].pre._state = None
                       \/ last[m].state # last[m].pre._state)
                THEN "InvalidStateError"
                ELSE "AuthorizationError"

\* a PKCE engine whose verifier was already consumed refused an exchange
\* that carried no state
C6_Witness ==
    \E m \in active :
       /\ use_pkce
       /\ url[m].stateRaw # None
       /\ last[m].op = "exchange_code"
       /\ last[m].pre._code_verifier = None
       /\ last[m].state = None
       /\ last[m].result = "AuthorizationError"

\* C7 (as claimed): an explicit state is stored as it is and is the state
\* parameter of the URL; a generated state differs from the state of every
\* earlier call on any engine.
C7_ExplicitOrFresh ==
    /\ [](\A m \in active :
            (last[m].op = "get_authorization_url"
             /\ last[m].state \notin {None, <<>>})
            => /\ eng[m]._state = last[m].state
               /\ UrlState(url[m]) = last[m].state)
    /\ [][\A m \in active :
            (last'[m].op = "get_authorization_url"
             /\ last'[m].state \in {None, <<>>})
            => /\ eng'[m]._state \notin {None, <<>>}
               /\ eng'[m]._state \notin issued
               /\ \A n \in active \ {m} : eng'[n]._state # eng'[m]._state]_vars

\* C8 (as claimed): an exchange ends in tokens, InvalidStateError or
\* AuthorizationError and in nothing else.
C8_FailuresAreAuthorizationError ==
    \A m \in active :
       last[m].op = "exchange_code"
       => last[m].result \in {"ok", "InvalidStateError", "AuthorizationError"}

\* what of an engine's FlowState does not depend on the random draws
FlowShape(e) ==
    [state_set |-> e._state # None, verifier_set |-> e._code_verifier # None,
     provider_scopes |-> e.provider_scopes]

\* C9 (as claimed): driven by the same calls and transport outcomes the two
\* clients end every call alike: same result, same kind of request, same
\* FlowState.
C9_ModesAgree ==
    active = Modes
    => /\ last["sync"].result = last["async"].result
       /\ last["sync"].request.kind = last["async"].request.kind
       /\ FlowShape(eng["sync"]) = FlowShape(eng["async"])

\* C10 (as claimed): revoke returns true only if the request came back with
\* a response; a request that failed or brought nothing raises TokenError.
C10_RevokeTrueOrTokenError ==
    \A m \in active :
       last[m].op = "revoke_token"
       => /\ last[m].result = "True"
             => /\ last[m].request.kind = "revoke"
                /\ last[m].outcome \in {"dict", "empty", "nondict"}
          /\ (last[m].request.kind = "revoke"
              /\ last[m].outcome \in {"none", "raise"})
             => last[m].result = "TokenError"

\* the support probe of each client: the blocking one looks for the provider
\* method, the non-blocking one for the endpoint attribute
Supports(m, op) ==
    IF m = "sync"
    THEN HasAttr(provider, op)
    ELSE HasAttr(provider,
                 CASE op = "refresh_token" -> "token_endpoint"
                   [] op = "revoke_token"  -> "revocation_endpoint"
                   [] OTHER                -> "user_info_endpoint")

\* C11 (as claimed): revoke on a provider without a revocation endpoint and
\* get_user_info on a provider without an identity endpoint fail with
\* UnsupportedOperationError and send no request.
C11_UnsupportedOperationError ==
    \A m \in active :
       (\/ /\ last[m].op = "revoke_token"
           /\ ~HasAttr(provider, "revocation_endpoint")
        \/ /\ last[m].op = "get_user_info"
           /\ ~HasAttr(provider, "user_info_endpoint"))
       => /\ last[m].result = "UnsupportedOperationError"
          /\ last[m].request.kind = "none"

\* C12: on either client refresh_token ends in a TokenResponse or in
\* TokenError; it ends in a TokenResponse only when the refresh request
\* brought back a non-empty JSON object; an empty response, a reported
\* failure and a thrown transport or provider error all end in TokenError.
C12_RefreshTokenOrTokenError ==
    \A m \in active :
       last[m].op = "refresh_token"
       => /\ last[m].result \in {"ok", "TokenError"}
          /\ last[m].result = "ok"
             => /\ last[m].outcome = "dict"
                /\ last[m].request.kind = "refresh"
          /\ last[m].outcome \in {"empty", "none", "raise"}
             => last[m].result = "TokenError"

\* the transport threw during a refresh on both clients and both ended in
\* TokenError after sending the refresh request
C12_Witness ==
    /\ active = Modes
    /\ \A m \in Modes :
          /\ last[m].op = "refresh_token"
          /\ last[m].outcome = "raise"
          /\ last[m].request.kind = "refresh"
          /\ last[m].result = "TokenError"

\* C13: on either client get_user_info, when the provider supports it, sends
\* a GET with an "Authorization: Bearer" header; it ends in a UserInfo or in
\* UserInfoError; it ends in a UserInfo only when the response was a
\* non-empty JSON object; an empty response, a reported failure and a thrown
\* transport or provider error all end in UserInfoError.
C13_UserInfoOrUserInfoError ==
    \A m \in active :
       last[m].op = "get_user_info"
       => /\ Supports(m, "get_user_info")
             => /\ last[m].request.kind = "userinfo"
                /\ last[m].request.method = "GET"
                /\ last[m].request.authorization = "Bearer"
          /\ last[m].result \in {"ok", "UserInfoError"}
          /\ last[m].result = "ok"
             => /\ last[m].outcome = "dict"
                /\ last[m].request.authorization = "Bearer"
          /\ last[m].outcome \in {"empty", "none", "raise"}
             => last[m].result = "UserInfoError"

\* the identity endpoint answered with an empty body and both clients, having
\* sent the authenticated GET, ended in UserInfoError
C13_Witness ==
    /\ active = Modes
    /\ \A m \in Modes :
          /\ last[m].op = "get_user_info"
          /\ last[m].outcome = "empty"
          /\ last[m].request.authorization = "Bearer"
          /\ last[m].result = "UserInfoError"

\* C15 (as claimed): a get_authorization_url call without a scope argument
\* puts the scopes the engine was constructed with into the URL, whatever
\* scopes earlier calls were given.
C15_NoScopeUsesConfigured ==
    \A m \in active :
       (last[m].op = "get_authorization_url" /\ last[m].scope = NoScope)
       => url[m].scope = InitEngine.provider_scopes

\* C14 (as claimed): the constructor ends in ConfigurationError exactly when
\* client_id is missing, or client_secret is missing while use_pkce is
\* false, or the provider argument is of no accepted type; a client that was
\* constructed holds no state and no code verifier.
C14_ConfigurationErrorExactlyWhen ==
    constructed # "no"
    => /\ constructed = "ConfigurationError"
          <=> \/ ~Truthy(args.client_id)
              \/ ~Truthy(args.client_secret) /\ ~args.use_pkce
              \/ args.provider.type \notin {"Providers", "str", "BaseProvider"}
       /\ constructed = "ok"
          => \A m \in active : /\ eng[m]._state = None
                               /\ eng[m]._code_verifier = None

\* C16 (as claimed): when two clients hold one provider instance, a call on
\* one of them leaves the scopes the other one puts into its URLs as they
\* were.
C16_SharedProviderUntouched ==
    [][\A m \in Modes : \A n \in Modes \ {m} :
          (last[m].op = "none" /\ last'[m].op # "none")
          => eng'[n].provider_scopes = eng[n].provider_scopes]_vars

\* the file (if any) a store call on user_id u met when it started
PreFile(u) == store_last.pre.storage_dir[_get_token_path(u)]

\* what get_token(u) returns or raises on a store
Get(store, u) ==
    LET r == IF storage = "memory" THEN Memory_get_token(store.memory, u)
             ELSE get_token(store.storage_dir, u, now)
    IN <<r.exc, r.ret>>

\* C17 (as claimed): on either store, as long as nobody tampered with the
\* file of u, get_token(u) returns the token last saved or updated for u
\* since the last delete_token(u) or clear_all and None if there is none;
\* update_token does what save_token would have done; delete_token(u)
\* returns true iff a token was stored for u.  Tokens are told apart by
\* their access_token.
C17_MapSemantics ==
    LET u == store_last.user_id
    IN /\ (store_last.op = "get_token" /\ PreFile(u).kind \notin DamageKinds)
          => /\ store_last.exc = "none"
             /\ store_last.ret.access_token = saved[u].access_token
       /\ store_last.op = "update_token"
          => LET r == IF storage = "memory"
                      THEN Memory_save_token(store_last.pre.memory, u,
                                             store_last.tokens)
                      ELSE save_token(store_last.pre.storage_dir, u,
                                      store_last.tokens)
             IN /\ store_last.exc = r.exc
                /\ r.store = IF storage = "memory" THEN memory ELSE storage_dir
       /\ (store_last.op = "delete_token" /\ PreFile(u).kind \notin DamageKinds)
          => (store_last.flag <=> store_last.pre.saved[u] # NoToken)

\* C18 (as claimed): in the file store, get_token(u) on the file that
\* save_token(u, t) wrote returns a token equal to t in access_token,
\* token_type, expires_in, refresh_token, scope, id_token, issued_at and
\* expires_at.
C18_FileRoundTrip ==
    LET u == store_last.user_id
    IN (/\ storage = "file"
        /\ store_last.op = "get_token"
        /\ saved[u] # NoToken
        /\ PreFile(u) = JsonFile(to_dict(saved[u])))
       => /\ store_last.exc = "none"
          /\ store_last.ret = saved[u]
          /\ expires_at(store_last.ret) = expires_at(saved[u])

\* C19: FileTokenStorage.get_token returns None exactly when there is no
\* file for the user; on a file that is not JSON, is JSON but not an object,
\* or cannot be opened it raises TokenStorageError; it never changes the
\* directory, so a corrupt file stays where it is.
C19_CorruptIsNotAbsent ==
    LET u == store_last.user_id
    IN (storage = "file" /\ store_last.op = "get_token")
       => /\ (store_last.exc = "none" /\ store_last.ret = NoToken)
             <=> PreFile(u).kind = "absent"
          /\ PreFile(u).kind \in DamageKinds
             => store_last.exc = "TokenStorageError"
          /\ storage_dir = store_last.pre.storage_dir

\* get_token met a file that is not JSON, raised TokenStorageError and left
\* the file in place
C19_Witness ==
    /\ storage = "file"
    /\ store_last.op = "get_token"
    /\ PreFile(store_last.user_id).kind = "corrupt"
    /\ store_last.exc = "TokenStorageError"
    /\ storage_dir[_get_token_path(store_last.user_id)].kind = "corrupt"

\* C20 (as claimed): on either store, save_token, update_token and
\* delete_token on one user_id leave what get_token returns for every other
\* user_id as it was.
C20_UsersIndependent ==
    store_last.op \in {"save_token", "update_token", "delete_token"}
    => \A u1 \in UserIds \ {store_last.user_id} :
          Get(Current, u1) = Get(store_last.pre, u1)

\* C21: whatever the user_id, the file that save_token, get_token,
\* delete_token or update_token works on is named by characters that are
\* alphanumeric, "_" or "-", it is a direct child of the storage directory,
\* and no other file of the directory is changed.
C21_PathInsideStorageDir ==
    (storage = "file"
     /\ store_last.op \in {"save_token", "get_token", "delete_token",
                           "update_token"})
    => LET k == _get_token_path(store_last.user_id)
       IN /\ \A i \in 1..Len(k) : isalnum(k[i]) \/ k[i] \in {"_", "-"}
          /\ Len(Split(k)) = 1
          /\ \A f \in FileNames \ {k} :
                storage_dir[f] = store_last.pre.storage_dir[f]

\* a token was saved under the user_id "../a" and landed in the file "a"
C21_Witness ==
    /\ storage = "file"
    /\ store_last.op = "save_token"
    /\ store_last.user_id = <<".", ".", "/", "a">>
    /\ store_last.pre.storage_dir[<<"a">>].kind = "absent"
    /\ storage_dir[<<"a">>].kind = "json"

\* C22: TokenResponse.from_dict(t.to_dict()) has the access_token,
\* token_type, refresh_token and scope of t.
C22_DictRoundTrip ==
    (output.done /\ input.fn = "from_dict")
    => /\ output.val.access_token = input.arg.access_token
       /\ output.val.token_type = input.arg.token_type
       /\ output.val.refresh_token = input.arg.refresh_token
       /\ output.val.scope = input.arg.scope

\* a token of type "mac" with refresh token and scope went through the
\* dictionary at a later time than it was issued
C22_Witness ==
    /\ output.done
    /\ input.fn = "from_dict"
    /\ input.arg.token_type = "mac"
    /\ input.arg.refresh_token = "r1"
    /\ input.arg.scope = "openid email"
    /\ input.at > input.arg.issued_at
    /\ output.val.token_type = "mac"

\* C23: is_expired is false at every time for a token without expires_in;
\* for a token with expires_in it is true exactly when the time read is at
\* least issued_at + expires_in, which is expires_at; read twice, the later
\* reading is true whenever the earlier one was.
C23_ExpiryMonotone ==
    (output.done /\ input.fn = "is_expired")
    => LET t == input.arg
       IN /\ t.expires_in = NoneInt
             => ~output.val.first /\ ~output.val.second
          /\ t.expires_in # NoneInt
             => /\ expires_at(t) = t.issued_at + t.expires_in
                /\ output.val.first <=> input.at >= t.issued_at + t.expires_in
                /\ output.val.second
                      <=> input.later >= t.issued_at + t.expires_in
          /\ output.val.first => output.val.second

\* a token was read before and again exactly at its expiry time: live
\* first, expired then
C23_Witness ==
    /\ output.done
    /\ input.fn = "is_expired"
    /\ input.arg.expires_in = 1
    /\ input.at < input.arg.issued_at + 1
    /\ input.later = input.arg.issued_at + 1
    /\ ~output.val.first
    /\ output.val.second

\* C24: the challenge of a verifier is the base64url encoding of its
\* SHA-256 digest with the padding taken off: it is what the function gives
\* for that verifier every time, and it contains no "=".
C24_ChallengeUnpadded ==
    (output.done /\ input.fn = "_generate_code_challenge")
    => /\ output.val = _generate_code_challenge(input.arg)
       /\ output.val \o <<"=">> = urlsafe_b64encode(sha256(input.arg))
       /\ \A i \in 1..Len(output.val) : output.val[i] # "="

\* the challenge of the verifier "test" was computed
C24_Witness ==
    /\ output.done
    /\ input.fn = "_generate_code_challenge"
    /\ input.arg = <<"t", "e", "s", "t">>
    /\ Len(output.val) > Len(input.arg)

\* the name n is the identifier p up to the case of its letters
SameIgnoringCase(n, p) ==
    n = p \/ <<n, p>> \in {<<"DISCORD", "discord">>, <<"GITHUB", "github">>,
                           <<"Google", "google">>}

\* C25: from_string gives the registered provider whose identifier is the
\* name up to case; for any other name it raises ValueError, the
\* unknown-provider error, with a message listing the eight identifiers,
\* and a client constructed from that name fails with ValueError too.
C25_ProviderResolution ==
    (output.done /\ input.fn = "from_string")
    => IF \E p \in ProviderIds : SameIgnoringCase(input.arg, p)
       THEN /\ output.val.provider \in ProviderIds
            /\ SameIgnoringCase(input.arg, output.val.provider)
            /\ output.val.constructed = "none"
       ELSE /\ output.val.provider = "ValueError"
            /\ output.val.message.available = ProviderIds
            /\ Cardinality(output.val.message.available) = 8
            /\ output.val.constructed = "ValueError"

\* the name "okta" was looked up and refused
C25_Witness ==
    /\ output.done
    /\ input.fn = "from_string"
    /\ input.arg = "okta"
    /\ output.val.provider = "ValueError"
    /\ output.val.constructed = "ValueError"

\* C26: UserInfo.from_dict takes id from 'id' and, only when the payload
\* has no 'id', from 'sub'; verified_email from 'verified_email' and, only
\* when that is absent, from 'email_verified'; raw_data is the payload.
C26_IdentityPriority ==
    (output.done /\ input.fn = "UserInfo.from_dict")
    => LET d == input.arg
       IN /\ d.id # Absent => output.val.id = d.id
          /\ (d.id = Absent /\ d.sub # Absent) => output.val.id = d.sub
          /\ d.verified_email # Absent
             => output.val.verified_email = d.verified_email
          /\ (d.verified_email = Absent /\ d.email_verified # Absent)
             => output.val.verified_email = d.email_verified
          /\ output.val.raw_data = d

\* a payload with both 'id' and 'sub' was converted and 'id' won
C26_Witness ==
    /\ output.done
    /\ input.fn = "UserInfo.from_dict"
    /\ input.arg.id = "1"
    /\ input.arg.sub = "2"
    /\ output.val.id = "1"

\* the adapter call just completed sent a token request
Exchanged ==
    web_last.op = "authorize_access_token" /\ web_last.request # NoRequest

\* C27 (as claimed): authorize_access_token sends the token request only
\* when the callback carries a state, the session holds an oauth_state and
\* the two are equal.
C27_ExchangeOnlyOnSessionState ==
    Exchanged
    => /\ Truthy(web_last.pre_session.oauth_state)
       /\ Truthy(web_last.callback.state)
       /\ web_last.callback.state = web_last.pre_session.oauth_state

\* C28 (as claimed): whatever other sessions did on the shared client in
\* between, a callback with a code that carries the state stored in its own
\* session does not end in InvalidStateError, and the PKCE request it sends
\* carries the verifier stored in its own session.
C28_SessionsIsolated ==
    (/\ web_last.op = "authorize_access_token"
     /\ ~web_last.callback.error /\ web_last.callback.code
     /\ Truthy(web_last.pre_session.oauth_state)
     /\ web_last.callback.state = web_last.pre_session.oauth_state)
    => /\ web_last.result # "InvalidStateError"
       /\ web_last.request.kind = "pkce"
          => web_last.request.code_verifier
               = web_last.pre_session.oauth_code_verifier

\* C29 (as claimed): of two exchange_code_async calls that validate the same
\* state and both found it stored when they started, at most one returns
\* tokens.
C29_OneExchangePerState ==
    \A t \in Tasks : \A u \in Tasks \ {t} :
       (/\ tasks[t].pc = "done" /\ tasks[u].pc = "done"
        /\ tasks[t].validate_state /\ tasks[u].validate_state
        /\ Truthy(tasks[t].state) /\ tasks[t].state = tasks[u].state
        /\ tasks[t].pre._state = tasks[t].state
        /\ tasks[u].pre._state = tasks[u].state)
       => ~(tasks[t].result = "ok" /\ tasks[u].result = "ok")

\* C30 (as claimed): when an exchange_code_async call completes and the
\* client holds a state stored after that call started, the completion
\* leaves that state and the verifier stored with it in place.
C30_CompletionKeepsNewFlow ==
    [][\A t \in Tasks :
          (/\ tasks[t].pc = "awaiting" /\ tasks'[t].pc = "done"
           /\ Truthy(eng["async"]._state)
           /\ eng["async"]._state # tasks[t].pre._state)
          => /\ eng'["async"]._state = eng["async"]._state
             /\ eng'["async"]._code_verifier = eng["async"]._code_verifier]_vars

\* C31: an exchange that ends in InvalidStateError leaves the stored state,
\* the stored verifier and everything else on the client as they were, and
\* a validated callback that carries the stored state is not rejected and
\* sends its token request.
C31_RejectionKeepsFlow ==
    \A m \in active :
       /\ (last[m].op = "exchange_code" /\ last[m].result = "InvalidStateError")
          => eng[m] = last[m].pre
       /\ (/\ last[m].op = "exchange_code"
           /\ last[m].validate_state
           /\ Truthy(last[m].state)
           /\ last[m].state = last[m].pre._state)
          => /\ last[m].result # "InvalidStateError"
             /\ last[m].request.kind # "none"

\* a forged callback was rejected while a state and, under PKCE, a verifier
\* were stored, and both are still there
C31_Witness ==
    \E m \in active :
       /\ use_pkce
       /\ last[m].op = "exchange_code"
       /\ last[m].state = ForgedState
       /\ last[m].result = "InvalidStateError"
       /\ Truthy(last[m].pre._state)
       /\ Truthy(last[m].pre._code_verifier)
       /\ eng[m]._state = last[m].pre._state
       /\ eng[m]._code_verifier = last[m].pre._code_verifier

\* C32: an exchange with validate_state=True and no state, or an empty one,
\* never ends in InvalidStateError; while a state is stored it sends the
\* token request; when it succeeds the stored state is gone.
C32_MissingStateNotChecked ==
    \A m \in active :
       (/\ last[m].op = "exchange_code"
        /\ last[m].validate_state
        /\ ~Truthy(last[m].state))
       => /\ last[m].result # "InvalidStateError"
          /\ Truthy(last[m].pre._state) => last[m].request.kind # "none"
          /\ last[m].result = "ok" => eng[m]._state = None

\* a callback without state was exchanged with validate_state=True while a
\* state was stored, and the state was cleared
C32_Witness ==
    \E m \in active :
       /\ last[m].op = "exchange_code"
       /\ last[m].validate_state
       /\ last[m].state = None
       /\ Truthy(last[m].pre._state)
       /\ last[m].result = "ok"
       /\ eng[m]._state = None

\* C33: get_authorization_url stores the state of this call, the one given
\* or a new one, and under PKCE a new verifier, in place of what was
\* stored; a validated callback that carries a state stored earlier and
\* since replaced is rejected with InvalidStateError, one that carries the
\* stored state is not.
C33_LatestFlowOnly ==
    \A m \in active :
       /\ last[m].op = "get_authorization_url"
          => /\ Truthy(last[m].state) => eng[m]._state = last[m].state
             /\ ~Truthy(last[m].state)
                => /\ Truthy(eng[m]._state)
                   /\ eng[m]._state # last[m].pre._state
             /\ use_pkce
                => eng[m]._code_verifier # last[m].pre._code_verifier
       /\ (/\ last[m].op = "exchange_code"
           /\ last[m].validate_state
           /\ Truthy(last[m].state))
          => /\ (last[m].state \in issued /\ last[m].state # last[m].pre._state)
                => last[m].result = "InvalidStateError"
             /\ last[m].state = last[m].pre._state
                => last[m].result # "InvalidStateError"

\* a callback carrying a state that an earlier get_authorization_url had
\* stored was rejected after a later call had replaced it
C33_Witness ==
    \E m \in active :
       /\ last[m].op = "exchange_code"
       /\ last[m].validate_state
       /\ last[m].state \in issued
       /\ Truthy(last[m].pre._state)
       /\ last[m].state # last[m].pre._state
       /\ last[m].result = "InvalidStateError"

\* C34: an exchange with validate_state=False never ends in
\* InvalidStateError; it sends the token request unless PKCE is on and no
\* verifier is stored, which is an AuthorizationError; when it succeeds the
\* stored state and verifier are gone.
C34_UnvalidatedNeverRejected ==
    \A m \in active :
       (last[m].op = "exchange_code" /\ ~last[m].validate_state)
       => /\ last[m].result # "InvalidStateError"
          /\ last[m].request.kind = "none"
             => /\ use_pkce
                /\ ~Truthy(last[m].pre._code_verifier)
                /\ last[m].result = "AuthorizationError"
          /\ last[m].result = "ok"
             => /\ eng[m]._state = None
                /\ eng[m]._code_verifier = None

\* a forged state was exchanged with validate_state=False while another
\* state was stored, and the stored state was consumed
C34_Witness ==
    \E m \in active :
       /\ last[m].op = "exchange_code"
       /\ ~last[m].validate_state
       /\ last[m].state = ForgedState
       /\ Truthy(last[m].pre._state)
       /\ last[m].result = "ok"
       /\ eng[m]._state = None

\* C35: refresh_token, revoke_token and get_user_info, on either client and
\* whatever their outcome, leave the stored state, the stored verifier and
\* the rest of the client as they were.
C35_TokenCallsKeepFlow ==
    \A m \in active :
       last[m].op \in {"refresh_token", "revoke_token", "get_user_info"}
       => eng[m] = last[m].pre

\* a revocation failed on both clients while an authorization was pending,
\* and the pending state is still stored
C35_Witness ==
    /\ active = Modes
    /\ \A m \in Modes :
          /\ last[m].op = "revoke_token"
          /\ last[m].result = "TokenError"
          /\ Truthy(last[m].pre._state)
          /\ eng[m]._state = last[m].pre._state

\* C36 (as claimed): authorize_access_token leaves the session without
\* oauth_state and oauth_code_verifier when it returns tokens and as it
\* was when it raises; the callback that has just returned tokens, sent
\* again in the same session, does not return tokens whatever the provider
\* answers.
C36_SessionCleanup ==
    web_last.op = "authorize_access_token"
    => LET sid == web_last.sid
       IN /\ web_last.result = "ok" => session[sid] = NoSession
          /\ web_last.result # "ok" => session[sid] = web_last.pre_session
          /\ web_last.result = "ok"
             => \A o \in Outcomes :
                   authorize_access_token(eng["sync"], session[sid],
                                          web_last.callback, o).result # "ok"

\* C37 (as claimed): in the file store, get_token(u) on the file written
\* for a token with expires_in returns a token with the expires_at of the
\* token that was saved, so that a saved token that is expired at the time
\* of the read comes back expired.
C37_LifetimeNotExtended ==
    LET u == store_last.user_id
    IN (/\ storage = "file"
        /\ store_last.op = "get_token"
        /\ saved[u].expires_in # NoneInt
        /\ PreFile(u) = JsonFile(to_dict(saved[u])))
       => /\ store_last.exc = "none"
          /\ expires_at(store_last.ret) = expires_at(saved[u])
          /\ is_expired(saved[u], now) => is_expired(store_last.ret, now)

\* C38: an audit changes nothing of the audited client, neither its
\* configuration nor its token storage nor its stored state and verifier;
\* and two audits by one auditor that saw the same client returned the
\* same issues, counts and score.
C38_AuditReadOnlyRepeatable ==
    /\ [](\A i \in 1..Len(reports) : \A j \in 1..Len(reports) :
             reports[i].client = reports[j].client
             => reports[i].report = reports[j].report)
    /\ [][reports' # reports
          => UNCHANGED <<clientVars, ctorVars, storeVars, redirect_uri,
                         token_storage>>]_vars

\* one auditor audited an unchanged client twice and found issues
C38_Witness ==
    /\ Len(reports) >= 2
    /\ reports[1].client = reports[2].client
    /\ reports[1].report.failed_checks > 0
    /\ auditor.issues = reports[2].report.issues

\* the issues of report r that have severity sev
IssuesOf(r, sev) == {i \in 1..Len(r.issues) : r.issues[i].severity = sev}

\* C39: in every report total_checks = passed_checks + failed_checks,
\* failed_checks is the number of issues above INFO, and the score is
\* 100 - 30*critical - 20*high - 10*medium - 5*low, or 0 where that is
\* negative, hence between 0 and 100.
C39_ReportArithmetic ==
    \A k \in 1..Len(reports) :
       LET r   == reports[k].report
           raw == 100 - 30 * Cardinality(IssuesOf(r, "critical"))
                      - 20 * Cardinality(IssuesOf(r, "high"))
                      - 10 * Cardinality(IssuesOf(r, "medium"))
                      - 5 * Cardinality(IssuesOf(r, "low"))
       IN /\ r.total_checks = r.passed_checks + r.failed_checks
          /\ r.failed_checks = Len(r.issues) - Cardinality(IssuesOf(r, "info"))
          /\ r.score = IF raw < 0 THEN 0 ELSE raw
          /\ r.score >= 0 /\ r.score <= 100

\* a report whose issues take more than 100 points off and whose score is 0
C39_Witness ==
    \E k \in 1..Len(reports) :
       LET r == reports[k].report
       IN /\ Cardinality(IssuesOf(r, "critical")) = 2
          /\ Cardinality(IssuesOf(r, "high")) = 1
          /\ Cardinality(IssuesOf(r, "medium")) = 3
          /\ Cardinality(IssuesOf(r, "info")) = 1
          /\ r.failed_checks = 6
          /\ r.score = 0

====
